---- MODULE Spec2Model ----
(***************************************************************************)
(* Model of the hdrajs framework core: the dependency-injection container *)
(* (DIContainer in src/src/core/application.ts) and the per-request       *)
(* dispatch pipeline built by createApp.                                    *)
(*                                                                         *)
(* Strings that the code concatenates or prefix-tests (request ids, string *)
(* tokens, request-cache keys) are sequences of one-character strings, so  *)
(* that `${requestId}_${token}` and key.startsWith(...) are computed the   *)
(* way the code computes them.                                             *)
(***************************************************************************)
EXTENDS Integers, Sequences, FiniteSets, TLC

\* ------------------------------------------------------------------------
\* Bounds
\* ------------------------------------------------------------------------
\* Number of objects the container may construct in one behaviour.
MaxObjects == 2
\* Number of register() calls in one behaviour.
MaxRegisters == 2
\* Depth of nested container.get calls before the call stack is exhausted.
MaxDepth == 4

\* ------------------------------------------------------------------------
\* Tokens, request ids, scopes
\* ------------------------------------------------------------------------
StrTok(s) == [kind |-> "str", s |-> s]
ClsTok(n) == [kind |-> "cls", s |-> <<n>>]

TokC == StrTok(<<"c">>)
TokBC == StrTok(<<"b", "_", "c">>)
TokSvc == ClsTok("Svc")
TokCtl == ClsTok("Ctl")

\* `${token}`: a string token is itself, a class is its source text (one
\* opaque symbol here).
TokenString(token) == token.s

\* A missing request id (undefined) and the empty string are both falsy.
NoId == <<>>
IdA == <<"a">>
IdAB == <<"a", "_", "b">>
IdB == <<"b">>

SINGLETON == "singleton"
REQUEST == "request"
TRANSIENT == "transient"
Undefined == "undefined"

\* ------------------------------------------------------------------------
\* Instances
\* ------------------------------------------------------------------------
Mk(kind, n, cls, args) == [kind |-> kind, n |-> n, cls |-> cls, args |-> args]
\* marker: nothing there (a Map miss)
Absent == Mk("absent", 0, "", <<>>)
Null == Mk("null", 0, "", <<>>)
\* a registered useValue constant
Value(v) == Mk("val", 0, v, <<>>)
\* the single object a factory that closes over one object hands out
SharedProduct(f) == Mk("shared", 0, f, <<>>)

\* `design:paramtypes` of the classes of the modelled application.
\* Ctl(s: Svc); Inj(@Inject('c') s: Svc); MayHave(@Optional() s: Svc);
\* Two(@Optional() g: Gone, s: Svc); Req(s: Svc, g: Gone). Gone is a class
\* nothing registers at first. CycA(b: CycB) and CycB(a: CycA) depend on each
\* other, and so do OptA(@Optional() b: OptB) and OptB(a: OptA).
ParamTypes(cls) ==
    CASE cls \in {"Ctl", "Inj", "MayHave"} -> <<TokSvc>>
      [] cls = "Two" -> <<ClsTok("Gone"), TokSvc>>
      [] cls = "Req" -> <<TokSvc, ClsTok("Gone")>>
      [] cls = "CycA" -> <<ClsTok("CycB")>>
      [] cls = "CycB" -> <<ClsTok("CycA")>>
      [] cls = "OptA" -> <<ClsTok("OptB")>>
      [] cls = "OptB" -> <<ClsTok("OptA")>>
      [] OTHER -> <<>>

\* Inject(token) overrides, per class and constructor position.
InjectToken(cls, index) ==
    IF cls = "Inj" /\ index = 1 THEN TokC ELSE Absent

\* Optional() marks, per class and constructor position.
IsOptional(cls, index) ==
    \/ cls = "MayHave" /\ index = 1
    \/ cls = "Two" /\ index = 1
    \/ cls = "OptA" /\ index = 1

\* What a registered factory function returns: "mkFresh" builds an object on
\* every call, "mkShared" hands out the same object on every call.
FactoryFresh(f) == f = "mkFresh"

\* ------------------------------------------------------------------------
\* DIContainer: pure part.  A container value c carries the three Maps of
\* the class and the number of objects constructed so far; object n is the
\* n-th one constructed.
\* ------------------------------------------------------------------------
Has(map, key) == key \in DOMAIN map

MapSet(map, key, value) ==
    [k \in DOMAIN map \cup {key} |-> IF k = key THEN value ELSE map[k]]

MapDelete(map, keys) == [k \in DOMAIN map \ keys |-> map[k]]

StartsWith(str, prefix) ==
    /\ Len(str) >= Len(prefix)
    /\ SubSeq(str, 1, Len(prefix)) = prefix

Provider(provide, useClass, useValue, useFactory, inject, scope) ==
    [provide |-> provide, useClass |-> useClass, useValue |-> useValue,
     useFactory |-> useFactory, inject |-> inject, scope |-> scope]

\* mutant of ScopeOf: the default lifetime is taken to be transient
ScopeOfDefaultTransient(provider) ==
    IF provider.scope = Undefined THEN TRANSIENT ELSE provider.scope

\* provider.scope || Scope.SINGLETON
ScopeOf(provider) ==
    IF provider.scope = Undefined THEN SINGLETON ELSE provider.scope

\* requestId && scope === Scope.REQUEST ? `${requestId}_${token}` : token
CacheKey(requestId, scope, token) ==
    IF requestId # NoId /\ scope = REQUEST
    THEN StrTok(requestId \o <<"_">> \o TokenString(token))
    ELSE token

Ok(c, v) == [ok |-> TRUE, val |-> v, args |-> <<>>, c |-> c]
Throw(c, e) == [ok |-> FALSE, val |-> Mk("error", 0, e, <<>>), args |-> <<>>, c |-> c]

\* The classes of the modelled application whose constructor throws.
ConstructorThrows(cls) == cls = "CtlBad"

\* new target(...dependencies): the next object of the heap, unless the
\* constructor throws
New(c, cls, args) ==
    IF ConstructorThrows(cls) THEN Throw(c, "constructor")
    ELSE Ok([c EXCEPT !.created = @ + 1], Mk("obj", c.created + 1, cls, args))

\* provider.useFactory(...deps)
CallFactory(c, f, deps) ==
    IF FactoryFresh(f) THEN New(c, f, deps) ELSE Ok(c, SharedProduct(f))

\* the class a token names, for createInstance(provider.provide)
ClassOf(token) == token.s[1]

RECURSIVE Get(_, _, _, _)
RECURSIVE CreateInstance(_, _, _, _)
RECURSIVE ResolveList(_, _, _, _, _, _, _)

\* tokens.map(tok => get(tok, requestId)), left to right; a failed element
\* becomes null when its position is optional and aborts the map otherwise.
\* What the elements before the failure stored in the caches stays stored.
ResolveList(c, tokens, optional, i, acc, requestId, depth) ==
    IF i > Len(tokens) THEN [ok |-> TRUE, val |-> Null, args |-> acc, c |-> c]
    ELSE LET r == Get(c, tokens[i], requestId, depth)
         IN  IF r.ok
             THEN ResolveList(r.c, tokens, optional, i + 1, Append(acc, r.val),
                              requestId, depth)
             ELSE IF optional[i]
             THEN ResolveList(r.c, tokens, optional, i + 1, Append(acc, Null),
                              requestId, depth)
             ELSE r

\* mutant of CreateInstance: the declared types are resolved, @Inject or not
CreateInstanceDeclaredTypes(c, target, requestId, depth) ==
    LET paramTypes == ParamTypes(target)
        optional == [i \in 1..Len(paramTypes) |-> IsOptional(target, i)]
        deps == ResolveList(c, paramTypes, optional, 1, <<>>, requestId, depth)
    IN  IF deps.ok THEN New(deps.c, target, deps.args) ELSE deps

\* createInstance: paramTypes.map(get(injectToken || type, requestId)), then
\* new target(...dependencies)
CreateInstance(c, target, requestId, depth) ==
    LET paramTypes == ParamTypes(target)
        tokens == [i \in 1..Len(paramTypes) |->
                      IF InjectToken(target, i) # Absent
                      THEN InjectToken(target, i) ELSE paramTypes[i]]
        optional == [i \in 1..Len(paramTypes) |-> IsOptional(target, i)]
        deps == ResolveList(c, tokens, optional, 1, <<>>, requestId, depth)
    IN  IF deps.ok THEN New(deps.c, target, deps.args) ELSE deps

\* the four ways get() builds an instance (lines 328-337)
Build(c, token, provider, requestId, depth) ==
    IF provider.useValue # Undefined THEN Ok(c, Value(provider.useValue))
    ELSE IF provider.useFactory # Undefined
    THEN LET deps == ResolveList(c, provider.inject,
                                 [i \in 1..Len(provider.inject) |-> FALSE],
                                 1, <<>>, requestId, depth)
         IN  IF deps.ok
             THEN CallFactory(deps.c, provider.useFactory, deps.args)
             ELSE deps
    ELSE IF provider.useClass # Undefined
    THEN CreateInstance(c, provider.useClass, requestId, depth)
    ELSE IF provider.provide.kind = "cls"
    THEN CreateInstance(c, ClassOf(provider.provide), requestId, depth)
    ELSE Throw(c, "TypeError")

\* mutant of Store: the request cache is filled whether or not an id was given
StoreWithoutId(c, scope, requestId, cacheKey, instance) ==
    IF scope = SINGLETON
    THEN [c EXCEPT !.instances = MapSet(@, cacheKey, instance)]
    ELSE IF scope = REQUEST
    THEN [c EXCEPT !.requestInstances = MapSet(@, cacheKey, instance)]
    ELSE c

\* mutant of Store: every scope but singleton is cached per request id
StoreAnyScope(c, scope, requestId, cacheKey, instance) ==
    IF scope = SINGLETON
    THEN [c EXCEPT !.instances = MapSet(@, cacheKey, instance)]
    ELSE IF requestId # NoId
    THEN [c EXCEPT !.requestInstances =
                       MapSet(@, CacheKey(requestId, REQUEST, cacheKey), instance)]
    ELSE c

\* Cache based on scope (lines 339-344)
Store(c, scope, requestId, cacheKey, instance) ==
    IF scope = SINGLETON
    THEN [c EXCEPT !.instances = MapSet(@, cacheKey, instance)]
    ELSE IF scope = REQUEST /\ requestId # NoId
    THEN [c EXCEPT !.requestInstances = MapSet(@, cacheKey, instance)]
    ELSE c

\* mutant of Get: what a failed construction raised is stored like an instance
GetStoringFailures(c, token, requestId, depth) ==
    IF depth = 0 THEN Throw(c, "RangeError")
    ELSE IF ~Has(c.providers, token) THEN Throw(c, "Provider not found")
    ELSE LET provider == c.providers[token]
             scope == ScopeOf(provider)
             cacheKey == CacheKey(requestId, scope, token)
         IN  IF scope = SINGLETON /\ Has(c.instances, cacheKey)
             THEN Ok(c, c.instances[cacheKey])
             ELSE IF scope = REQUEST /\ requestId # NoId
                     /\ Has(c.requestInstances, cacheKey)
             THEN Ok(c, c.requestInstances[cacheKey])
             ELSE LET r == Build(c, token, provider, requestId, depth - 1)
                  IN  [r EXCEPT !.c = Store(r.c, scope, requestId, cacheKey, r.val)]

\* DIContainer.get; depth is the room left on the call stack
Get(c, token, requestId, depth) ==
    IF depth = 0 THEN Throw(c, "RangeError")
    ELSE IF ~Has(c.providers, token) THEN Throw(c, "Provider not found")
    ELSE LET provider == c.providers[token]
             scope == ScopeOf(provider)
             cacheKey == CacheKey(requestId, scope, token)
         IN  IF scope = SINGLETON /\ Has(c.instances, cacheKey)
             THEN Ok(c, c.instances[cacheKey])
             ELSE IF scope = REQUEST /\ requestId # NoId
                     /\ Has(c.requestInstances, cacheKey)
             THEN Ok(c, c.requestInstances[cacheKey])
             ELSE LET r == Build(c, token, provider, requestId, depth - 1)
                  IN  IF r.ok
                      THEN Ok(Store(r.c, scope, requestId, cacheKey, r.val), r.val)
                      ELSE r

\* DIContainer.clearRequestScope
ClearScope(c, requestId) ==
    LET keysToDelete == {key \in DOMAIN c.requestInstances :
                            StartsWith(key.s, requestId \o <<"_">>)}
    IN  [c EXCEPT !.requestInstances = MapDelete(@, keysToDelete)]

\* ------------------------------------------------------------------------
\* State
\* ------------------------------------------------------------------------
VARIABLES
    providers,         \* DIContainer.providers
    instances,         \* DIContainer.instances (singleton cache)
    requestInstances,  \* DIContainer.requestInstances (request cache)
    created,           \* number of objects constructed so far
    registers,         \* number of register() calls made
    live,              \* per (token, request id): what get returned last for
                       \* a request-lifetime provider, and whether the id
                       \* was cleared since
    singletonFirst,    \* per token: what its first singleton get returned,
                       \* and how many singleton gets it had (up to 2)
    transientSeen,     \* per token: what its last transient get returned,
                       \* and how many transient gets it had (up to 2)
    called,            \* the last call of get that was followed from its
                       \* arguments to its outcome: the container before it,
                       \* what it returned or threw, the container after it
    meta,              \* what the decorators recorded for the controller, its
                       \* route and the injectable classes
    inputs,            \* what reaches the application from outside its code
                       \* paths: the bodies clients send and the errors the
                       \* handler's logic raises
    transformed,       \* a call of ValidationPipe.transform on its own: its
                       \* arguments and, once it has returned, its outcome
    options,           \* the AppConfig given to createApp
    modules,           \* the root module, what @Module recorded for each
                       \* module class, and the classes declared with
                       \* @Controller
    app,               \* the stack a request to the route runs through;
                       \* empty until createApp has run
    instance,          \* the controller instance createApp bound the route to
    globals,           \* globalThis.controllers and globalThis.providers
    routes,            \* the routes registered with the transport, in order
    events,            \* what was appended to the global collections, by
                       \* whom, and which controllers were instantiated
    requests,          \* per request: where its dispatch stands and what it did
    resolves,          \* number of container.get calls made from handlers
    limiter            \* RateLimitMiddleware: its static map of records, the
                       \* limiters create() has returned, the clock, and what
                       \* each limiter passed on in its current window

diVars == <<providers, instances, requestInstances, created, registers,
            live, singletonFirst, transientSeen, called>>

\* what is fixed once the modules are loaded
declVars == <<meta, inputs, transformed, options, modules, limiter>>

\* what createApp sets
bootVars == <<app, instance, globals, routes, events>>

dispVars == <<meta, inputs, transformed, options, modules, limiter, app, instance,
             globals, routes, events, requests, resolves>>

vars == <<providers, instances, requestInstances, created, registers,
          live, singletonFirst, transientSeen, called,
          meta, inputs, transformed, options, modules, limiter, app, instance,
          globals,
          routes, events, requests, resolves>>

Container ==
    [providers |-> providers, instances |-> instances,
     requestInstances |-> requestInstances, created |-> created]

SetContainer(c) ==
    /\ providers' = c.providers
    /\ instances' = c.instances
    /\ requestInstances' = c.requestInstances
    /\ created' = c.created

\* Tokens and request ids the container is called with.
Tokens == {TokC, TokBC}
RequestIds == {IdA, IdAB}
Scopes == {Undefined, REQUEST, TRANSIENT}

\* The descriptors register() is called with.  The token "c" is registered
\* as a value or as a class (what Injectable() registers is
\* {provide: target, useClass: target}) with every scope, and as a transient
\* factory; the token "b_c" as a request-scoped class.
Descriptors ==
    {Provider(TokC, Undefined, "v1", Undefined, <<>>, s) : s \in Scopes}
    \cup {Provider(TokC, Undefined, Undefined, "mkShared", <<>>, TRANSIENT)}
    \cup {Provider(TokC, "Svc", Undefined, Undefined, <<>>, s) : s \in Scopes}
    \cup {Provider(TokBC, "Svc", Undefined, Undefined, <<>>, REQUEST)}

\* The lifetime a descriptor declares (singleton when it names none).
Lifetime(provider) ==
    IF provider.scope \in {REQUEST, TRANSIENT} THEN provider.scope ELSE SINGLETON

SourceKind(provider) ==
    IF provider.useValue # Undefined THEN "value"
    ELSE IF provider.useFactory # Undefined THEN "factory"
    ELSE "class"

\* live[token, id] before the pair was ever resolved
NotYet == [val |-> Absent, cleared |-> FALSE]

\* The cache slots that belong to a token: its singleton slot and its slot
\* under every request id.
SlotsOf(c, token) ==
    [k \in {token} \cup {CacheKey(id, REQUEST, token) : id \in RequestIds} |->
        IF k = token
        THEN (IF Has(c.instances, k) THEN c.instances[k] ELSE Absent)
        ELSE (IF Has(c.requestInstances, k) THEN c.requestInstances[k] ELSE Absent)]

\* no call of get followed yet
NoCall ==
    [made |-> FALSE, token |-> TokC, requestId |-> NoId,
     before |-> [providers |-> <<>>, instances |-> <<>>,
                 requestInstances |-> <<>>, created |-> 0],
     out |-> Ok([providers |-> <<>>, instances |-> <<>>,
                 requestInstances |-> <<>>, created |-> 0], Absent)]

NewContainer ==
    /\ instances = <<>>
    /\ requestInstances = <<>>
    /\ created = 0
    /\ registers = 0
    /\ live = [p \in Tokens \X RequestIds |-> NotYet]
    /\ singletonFirst = [t \in Tokens |-> [val |-> Absent, gets |-> 0]]
    /\ transientSeen = [t \in Tokens |-> [val |-> Absent, gets |-> 0]]
    /\ called = NoCall

InitContainer ==
    /\ providers = <<>>
    /\ NewContainer

\* DIContainer.register
Register(provider) ==
    /\ registers < MaxRegisters
    /\ registers' = registers + 1
    /\ providers' = MapSet(providers, provider.provide, provider)
    /\ UNCHANGED <<instances, requestInstances, created, live, singletonFirst,
                   transientSeen, called>>
    /\ UNCHANGED dispVars

\* a call of container.get(token, requestId) from application code
GetCall(token, requestId) ==
    LET r == Get(Container, token, requestId, MaxDepth)
        lifetime == IF Has(providers, token) THEN Lifetime(providers[token]) ELSE ""
    IN  /\ r.c.created <= MaxObjects
        /\ SetContainer(r.c)
        /\ live' = IF r.ok /\ lifetime = REQUEST /\ requestId # NoId
                   THEN [live EXCEPT ![<<token, requestId>>] =
                            [val |-> r.val, cleared |-> FALSE]]
                   ELSE live
        /\ singletonFirst' =
             IF r.ok /\ lifetime = SINGLETON
             THEN [singletonFirst EXCEPT ![token] =
                      [val |-> IF @.gets = 0 THEN r.val ELSE @.val,
                       gets |-> IF @.gets < 2 THEN @.gets + 1 ELSE 2]]
             ELSE singletonFirst
        /\ transientSeen' =
             IF r.ok /\ lifetime = TRANSIENT
             THEN [transientSeen EXCEPT ![token] =
                      [val |-> r.val, gets |-> IF @.gets < 2 THEN @.gets + 1 ELSE 2]]
             ELSE transientSeen
        /\ UNCHANGED <<registers, called>>
        /\ UNCHANGED dispVars

\* a call of container.clearRequestScope(requestId) from application code
ClearCall(requestId) ==
    /\ SetContainer(ClearScope(Container, requestId))
    /\ live' = [p \in Tokens \X RequestIds |->
                   IF p[2] = requestId THEN [live[p] EXCEPT !.cleared = TRUE]
                   ELSE live[p]]
    /\ UNCHANGED <<registers, singletonFirst, transientSeen, called>>
    /\ UNCHANGED dispVars

\* ------------------------------------------------------------------------
\* createApp: the declarations it reads and the handler chain it builds
\* ------------------------------------------------------------------------
\* Number of requests dispatched in one behaviour.
NumRequests == 2
\* Number of container.get calls application code makes from handlers.
MaxResolves == 1

Requests == 1..NumRequests

\* The ids Math.random().toString(36) hands out; nothing keeps two draws apart.
DispatchIds == {IdA, IdB}

\* getMiddleware / getGuards / getFilters: Reflect.getMetadata(...) || []
GetMetadata(metadata, key) == IF key \in DOMAIN metadata THEN metadata[key] ELSE <<>>

Stage(kind, name) == [kind |-> kind, name |-> name]

Stages(kind, names) == [i \in 1..Len(names) |-> Stage(kind, names[i])]

\* mutant of Handlers: the guards are put in front of the route middleware
HandlersGuardsFirst(metadata) ==
    Stages("guard", GetMetadata(metadata, "classGuards")
                      \o GetMetadata(metadata, "methodGuards"))
    \o Stages("middleware", GetMetadata(metadata, "classMiddleware")
                              \o GetMetadata(metadata, "methodMiddleware"))
    \o <<Stage("terminal", "handler")>>

\* const handlers = [...allMiddleware, ...guards.map(...), async (req, res) => ...]
Handlers(metadata) ==
    Stages("middleware", GetMetadata(metadata, "classMiddleware")
                           \o GetMetadata(metadata, "methodMiddleware"))
    \o Stages("guard", GetMetadata(metadata, "classGuards")
                         \o GetMetadata(metadata, "methodGuards"))
    \o <<Stage("terminal", "handler")>>

\* What a request to the route runs through: the app.use(middleware) layers
\* of options.middleware, then the handlers registered for the route.
RouteStack(config, metadata) == Stages("middleware", config.middleware) \o Handlers(metadata)

\* mutant of SelectFilter: a class-level filter wins over a method-level one
SelectFilterClassFirst(methodFilters, classFilters, globalFilter) ==
    IF classFilters # <<>> THEN classFilters[1]
    ELSE IF methodFilters # <<>> THEN methodFilters[1]
    ELSE IF globalFilter # Undefined THEN globalFilter
    ELSE "defaultFilter"

\* methodFilters[0] || classFilters[0] || globalFilter || defaultFilter
SelectFilter(methodFilters, classFilters, globalFilter) ==
    IF methodFilters # <<>> THEN methodFilters[1]
    ELSE IF classFilters # <<>> THEN classFilters[1]
    ELSE IF globalFilter # Undefined THEN globalFilter
    ELSE "defaultFilter"

\* mutant of GuardWrapper: the wrapper goes on whatever the guard did
GuardWrapperAlwaysNext(guardCallsNext) == TRUE

\* (req, res, next) => guard(req, res, next): the chain goes on exactly when
\* the guard itself invokes next
GuardWrapper(guardCallsNext) == guardCallsNext

\* Legacy resolveDependencies of the decorators module: a parameter type that
\* carries the 'injectable' metadata is built anew, with its own dependencies
\* resolved the same way; any other parameter type is left out.
RECURSIVE LegacyResolve(_, _, _, _, _)
LegacyResolve(c, injectable, paramTypes, i, acc) ==
    IF i > Len(paramTypes) THEN [ok |-> TRUE, val |-> Null, args |-> acc, c |-> c]
    ELSE LET cls == ClassOf(paramTypes[i])
         IN  IF cls \in injectable
             THEN LET deps == LegacyResolve(c, injectable, ParamTypes(cls), 1, <<>>)
                      inst == New(deps.c, cls, deps.args)
                  IN  LegacyResolve(inst.c, injectable, paramTypes, i + 1,
                                    Append(acc, inst.val))
             ELSE LegacyResolve(c, injectable, paramTypes, i + 1, acc)

\* try { instance = container.get(ControllerClass) }
\* catch { instance = new ControllerClass(...resolveDependencies(ControllerClass)) }
Instantiate(c, injectable, cls) ==
    LET r == Get(c, ClsTok(cls), NoId, MaxDepth)
    IN  IF r.ok THEN r
        ELSE LET deps == LegacyResolve(r.c, injectable, ParamTypes(cls), 1, <<>>)
             IN  New(deps.c, cls, deps.args)

\* The function pipes of allPipes = [...globalPipes, ...pipes]; entries that
\* are not functions are passed over by the dispatcher.
IsFunctionPipe(pipe) == pipe.kind = "class"

\* The first pipe at or after position k that the dispatcher applies; 0: none
RECURSIVE NextPipe(_, _)
NextPipe(allPipes, k) ==
    IF k > Len(allPipes) THEN 0
    ELSE IF IsFunctionPipe(allPipes[k]) THEN k
    ELSE NextPipe(allPipes, k + 1)

\* ------------------------------------------------------------------------
\* Validation: rules, ValidationPipe, ValidationException
\* ------------------------------------------------------------------------
\* Texts are sequences of text pieces, so that `${propertyKey}: ${result}` and
\* errors.join(', ') are concatenations here as they are in the code.
\* A value is "undef", "str" or "num" by its typeof; a plain object is a
\* function from property names to values ("undef": the property is absent).
PropNames == {"nick", "name"}

Plains == [PropNames -> {"undef", "str", "num"}]

\* IsRequired / IsString / IsNumber .validate(value): TRUE, or the message
RuleResult(rule, value) ==
    CASE rule = "IsRequired" ->
            IF value # "undef" THEN <<>> ELSE <<"Field is required">>
      [] rule = "IsString" ->
            IF value = "str" THEN <<>> ELSE <<"Value must be a string">>
      [] rule = "IsNumber" ->
            IF value = "num" THEN <<>> ELSE <<"Value must be a number">>

\* A class given as metatype: its name and its declared properties in order
\* of declaration, each with the rules its decorators recorded and whether
\* the name is an own property of the prototype (an accessor or a method; a
\* plain field is not).
Prop(name, own, rules) == [name |-> name, own |-> own, rules |-> rules]

Class(name, props) == [name |-> name, props |-> props]

NoType == Class(Undefined, <<>>)

\* ValidationPipe.toValidate
ToValidate(metatype) ==
    metatype.name \notin {"String", "Boolean", "Number", "Array", "Object"}

\* ValidationPipe.plainToClass: new cls(), then Object.assign(instance, plain)
PlainToClass(cls, plain) == [cls |-> cls.name, fields |-> plain]

\* errors.push(`${propertyKey}: ${result}`) for the rules of one property
RECURSIVE RuleErrors(_, _, _, _)
RuleErrors(propertyKey, rules, value, i) ==
    IF i > Len(rules) THEN <<>>
    ELSE LET result == RuleResult(rules[i], value)
         IN  (IF result = <<>> THEN <<>>
              ELSE <<<<propertyKey, ": ">> \o result>>)
             \o RuleErrors(propertyKey, rules, value, i + 1)

\* mutant of OwnPropertyNames: every declared property is visited
DeclaredPropertyNames(cls) == {i \in DOMAIN cls.props : TRUE}

\* Object.getOwnPropertyNames(prototype.constructor.prototype), 'constructor'
\* left out: the positions of the declared properties that are own
\* properties of the prototype
OwnPropertyNames(cls) == {i \in DOMAIN cls.props : cls.props[i].own}

\* ValidationPipe.validate: the messages of the rules that fail, over the own
\* property names of the prototype
RECURSIVE Validate(_, _, _)
Validate(cls, object, i) ==
    IF i > Len(cls.props) THEN <<>>
    ELSE (IF i \in OwnPropertyNames(cls)
          THEN RuleErrors(cls.props[i].name, cls.props[i].rules,
                          object.fields[cls.props[i].name], 1)
          ELSE <<>>)
         \o Validate(cls, object, i + 1)

\* errors.join(', ')
RECURSIVE Join(_, _)
Join(errors, i) ==
    IF i > Len(errors) THEN <<>>
    ELSE (IF i > 1 THEN <<", ">> ELSE <<>>) \o errors[i] \o Join(errors, i + 1)

\* Raised values: a structured HTTP exception {status, message}, an Error
\* with a message, a ValidationException with its errors.
Raised(kind, status, message, errors) ==
    [kind |-> kind, status |-> status, message |-> message, errors |-> errors]

NoError == Raised("none", 0, <<>>, <<>>)

HttpException(status, message) == Raised("http", status, message, <<>>)

PlainError(message) == Raised("error", 0, message, <<>>)

\* new ValidationException(errors)
ValidationException(errors) ==
    Raised("ValidationException", 0, <<"Validation failed: ">> \o Join(errors, 1),
           errors)

\* ValidationPipe.transform(value, {metatype})
Transform(value, metatype) ==
    IF metatype.name = Undefined \/ ~ToValidate(metatype)
    THEN [ok |-> TRUE, val |-> value, error |-> NoError]
    ELSE LET object == PlainToClass(metatype, value)
             errors == Validate(metatype, object, 1)
         IN  IF Len(errors) > 0
             THEN [ok |-> FALSE, val |-> value, error |-> ValidationException(errors)]
             ELSE [ok |-> TRUE, val |-> object, error |-> NoError]

\* ------------------------------------------------------------------------
\* Exception filters
\* ------------------------------------------------------------------------
Sent(status, body) == [status |-> status, body |-> body]

NothingSent == Sent(0, [statusCode |-> 0, message |-> <<>>, error |-> <<>>])

\* defaultFilter: res.status(500).json({statusCode, message, error})
DefaultFilter(error) ==
    Sent(500, [statusCode |-> 500, message |-> <<"Internal server error">>,
               error |-> error.message])

\* HttpExceptionFilter: 'status' in error ? the carried status and message
\* : 500 as the default filter
HttpExceptionFilter(error) ==
    IF error.kind = "http"
    THEN Sent(error.status, [statusCode |-> error.status, message |-> error.message,
                             error |-> <<>>])
    ELSE Sent(500, [statusCode |-> 500, message |-> <<"Internal server error">>,
                    error |-> error.message])

\* mutant of RunsCleanup: the cleanup is an ordinary statement after the
\* try/catch, so a raising filter skips it
RunsCleanupUnlessRaised(filterRaised) == ~filterRaised

\* finally { container.clearRequestScope(requestId) }: the block runs on the
\* way out of the try and of the catch, also when the catch block raised
RunsCleanup(filterRaised) == TRUE

\* ------------------------------------------------------------------------
\* The dispatcher: state, bootstrap and the steps of a request
\* ------------------------------------------------------------------------
\* The controller Ctl (constructor parameter: Svc) with one route
\*   handler(@Param('id') id, @Body(Dto) body)
\* under class middleware B, method middleware C, class guard G1, method guard
\* G2 and @UsePipes(ValidationPipe); Svc is @Injectable({scope: REQUEST}),
\* Ctl is @Injectable() or not; filters are declared or not.
\* What @Param(name) and @Body(dto) store at the position of the parameter
\* they decorate; a position no decorator wrote to is a hole of the array.
ParamBinding(index, name) ==
    [index |-> index, type |-> "param", name |-> name, dto |-> Undefined]
BodyBinding(index, dto) ==
    [index |-> index, type |-> "body", name |-> Undefined, dto |-> dto]
Hole == [index |-> 0, type |-> Undefined, name |-> Undefined, dto |-> Undefined]

\* getParameterMetadata: params.filter(p => p !== undefined)
GetParameterMetadata(metadata) == SelectSeq(metadata.params, LAMBDA p : p # Hole)

Declared(injectable, methodFilters, classFilters) ==
    [injectable       |-> injectable,
     classMiddleware  |-> <<"B">>,
     methodMiddleware |-> <<"C">>,
     classGuards      |-> <<"G1">>,
     methodGuards     |-> <<"G2">>,
     params           |-> <<ParamBinding(1, "id"), BodyBinding(2, "Dto")>>,
     pipes            |-> <<[kind |-> "class", name |-> "ValidationPipe"]>>]
    @@ (IF methodFilters = <<>> THEN <<>>
        ELSE [k \in {"methodFilters"} |-> methodFilters])
    @@ (IF classFilters = <<>> THEN <<>>
        ELSE [k \in {"classFilters"} |-> classFilters])

\* The route's body parameter declared as @Body(Dto), or as @Body() with the
\* class only in the parameter's type annotation (dto: undefined)
BodyDeclared(metadata, dto) == [metadata EXCEPT !.params[2].dto = dto]

\* createApp(AppModule, { middleware: [A], globalPipes: [new ValidationPipe()],
\*                        exception })
Config(exception) ==
    [middleware  |-> <<"A">>,
     globalPipes |-> <<[kind |-> "instance", name |-> "ValidationPipe"]>>,
     exception   |-> exception]

AllPipes == options.globalPipes \o meta.pipes

\* const params = getParameterMetadata(instance, route.handler)
Params == GetParameterMetadata(meta)

\* The class Dto of the body parameter: an accessor 'nick' and a plain field
\* 'name', both with rules.
BodyDto ==
    Class("Dto", <<Prop("nick", TRUE, <<"IsRequired">>),
                   Prop("name", FALSE, <<"IsRequired", "IsString">>)>>)

\* metatype: param.dto
Metatype(param) == IF param.dto = Undefined THEN NoType ELSE BodyDto

\* req.body for a body parameter, req.params[name] for a path parameter
ParamValue(param, body) == IF param.type = "body" THEN body ELSE "str"

\* pipeInstance.transform(value, {type, metatype: param.dto, data}) raises
PipeRaises(pipe, param, value) ==
    pipe.name = "ValidationPipe" /\ ~Transform(value, Metatype(param)).ok

Body(nick, name) == [p \in PropNames |-> IF p = "nick" THEN nick ELSE name]

\* mutant of FilterArgs: the filter is handed a new Error in place of the
\* raised one
FilterArgsWrapped(error, d) == [error |-> PlainError(<<"wrapped">>), res |-> d]

\* filter(error, res)
FilterArgs(error, d) == [error |-> error, res |-> d]

NoBody == [statusCode |-> 0, message |-> <<>>, error |-> <<>>]

\* What a filter sends for an error; a filter of the application (MF, CF, GF)
\* sends what it chooses.
Respond(filter, error) ==
    CASE filter = "defaultFilter" -> DefaultFilter(error)
      [] filter = "HttpExceptionFilter" -> HttpExceptionFilter(error)
      [] OTHER -> Sent(0, NoBody)

\* What a handler's promise resolves with: undefined, or a value
Result(defined, value) == [returned |-> TRUE, defined |-> defined, value |-> value]
UndefinedResult == Result(FALSE, NoBody)
JsonResult(message) ==
    Result(TRUE, [statusCode |-> 0, message |-> message, error |-> <<>>])
\* the handler has not returned
NotReturned == [returned |-> FALSE, defined |-> FALSE, value |-> NoBody]

\* mutant of ResponseFor: the result is sent as JSON whatever it is
ResponseAlwaysJson(result) == Sent(200, result.value)

\* result === undefined ? res.status(204).send() : res.json(result)
ResponseFor(result) ==
    IF ~result.defined THEN Sent(204, NoBody) ELSE Sent(200, result.value)

NewRequest ==
    [pc |-> "new", idx |-> 0, id |-> NoId, body |-> Body("str", "str"),
     closures |-> <<>>, piped |-> <<>>, args |-> <<>>, trace |-> <<>>,
     res |-> <<>>, filters |-> <<>>,
     clears |-> <<>>, dep |-> <<>>, rejected |-> FALSE,
     error |-> NoError, caught |-> <<>>, result |-> NotReturned,
     sent |-> NothingSent]

\* @Injectable(options) on a class: container.register({provide, useClass, scope})
InjectableProvider(cls, scope) ==
    Provider(ClsTok(cls), cls, Undefined, Undefined, <<>>, scope)

InjectableScope(cls) == IF cls = "Svc" THEN REQUEST ELSE Undefined

\* ValidationPipe.transform not called on its own
NoTransform == [metatype |-> NoType, value |-> Body("undef", "undef"),
                returned |-> FALSE, out |-> Transform("undef", NoType)]

\* ---- Modules and bootstrap ----

\* what @Module(metadata) records on a module class
ModuleMetadata(imports, controllers, listed) ==
    [imports |-> imports, controllers |-> controllers, providers |-> listed]

\* The entries of a providers list: a class, or a descriptor
\* {provide: 'NAME', useValue: ...}
ClassProvider(cls) == [provide |-> ClsTok(cls), use |-> "class"]
ValueProvider(name) == [provide |-> StrTok(<<name>>), use |-> "useValue"]

\* an append to a global collection, and who made it: the @Controller
\* decorator, or the loading of a module
Pushed(coll, item, by) == [ev |-> "push", coll |-> coll, item |-> item, by |-> by]

\* a controller instance made by createApp
Instantiated(cls) ==
    [ev |-> "new", coll |-> "controllers", item |-> ClsTok(cls), by |-> "createApp"]

\* globalThis.controllers.push(...metadata.controllers)
PushControllers(g, controllers, by) ==
    [g EXCEPT !.controllers = @ \o controllers,
              !.log = @ \o [i \in 1..Len(controllers) |->
                              Pushed("controllers", ClsTok(controllers[i]), by)]]

\* globalThis.providers.push(...metadata.providers)
PushProviders(g, listed, by) ==
    [g EXCEPT !.providers = @ \o listed,
              !.log = @ \o [i \in 1..Len(listed) |->
                              Pushed("providers", listed[i].provide, by)]]

RECURSIVE LoadModule(_, _, _)
RECURSIVE LoadImports(_, _, _, _)

\* metadata.imports.forEach(importedModule => loadModule(importedModule))
LoadImports(graph, imports, i, g) ==
    IF i > Len(imports) THEN g
    ELSE LoadImports(graph, imports, i + 1, LoadModule(graph, imports[i], g))

\* mutant of LoadModule: a module's own controllers and providers are pushed
\* before its imports are loaded
LoadModuleSelfFirst(graph, module, g) ==
    LET metadata == graph[module]
    IN  LoadImports(graph, metadata.imports, 1,
                    PushProviders(PushControllers(g, metadata.controllers, module),
                                  metadata.providers, module))

\* loadModule: the imports first, then the module's controllers, then its
\* providers
LoadModule(graph, module, g) ==
    LET metadata == graph[module]
        loaded == LoadImports(graph, metadata.imports, 1, g)
    IN  PushProviders(PushControllers(loaded, metadata.controllers, module),
                      metadata.providers, module)

\* createApp on the root module: its imports through loadModule, then its own
\* controllers and providers
FlattenRoot(graph, root, g) ==
    LET metadata == graph[root]
        loaded == LoadImports(graph, metadata.imports, 1, g)
    IN  PushProviders(PushControllers(loaded, metadata.controllers, root),
                      metadata.providers, root)

\* The routes the method decorators recorded on a controller class: each
\* controller declares one GET route.
Routes(cls) == <<[method |-> "get", path |-> <<"/:id">>, handler |-> "handler"]>>

\* Reflect.getMetadata('prefix', ControllerClass): what @Controller recorded;
\* undefined, which the concatenation spells out, where it did not run
Prefix(mods, cls) == IF cls \in mods.decorated THEN <<"/", cls>> ELSE <<"undefined">>

\* options?.globalPrefix || ''
GlobalPrefix(config) ==
    IF "globalPrefix" \in DOMAIN config THEN config.globalPrefix ELSE <<>>

\* (options?.globalPrefix || '') + prefix + route.path
FullPath(config, prefix, route) == GlobalPrefix(config) \o prefix \o route.path

\* app[route.method](fullPath, ...handlers)
Registered(method, path, cls, inst) ==
    [method |-> method, path |-> path, controller |-> cls, instance |-> inst]

\* console.error('Error registering controller:', ...): a controller whose
\* instantiation threw
Failed(cls) ==
    [ev |-> "failed", coll |-> "controllers", item |-> ClsTok(cls), by |-> "createApp"]

\* The one element of a singleton set: {e : x \in {v}} evaluates v once and
\* hands its value to e.
The(S) == CHOOSE v \in S : TRUE

\* One turn of controllers.forEach: the instance and the routes registered on
\* it, or, caught by the try around the turn, the error logged
BindOne(config, mods, injectable, cls, acc) ==
    The({The({
        IF r.ok
        THEN [c |-> r.c,
              routes |-> a.routes \o
                  [k \in 1..Len(Routes(cls)) |->
                      Registered(Routes(cls)[k].method,
                                 FullPath(config, Prefix(mods, cls), Routes(cls)[k]),
                                 cls, r.val)],
              log |-> Append(a.log, Instantiated(cls))]
        ELSE [c |-> r.c, routes |-> a.routes, log |-> Append(a.log, Failed(cls))]
      : r \in {Instantiate(a.c, injectable, cls)}})
      : a \in {acc}})

\* mutant of BindControllers: the first controller that fails ends the loop
RECURSIVE BindControllersFailFast(_, _, _, _, _, _)
BindControllersFailFast(config, mods, injectable, controllers, i, acc) ==
    IF i > Len(controllers) THEN acc
    ELSE LET bound == BindOne(config, mods, injectable, controllers[i], acc)
         IN  IF Len(bound.log) > 0 /\ bound.log[Len(bound.log)].ev = "failed"
             THEN bound
             ELSE BindControllersFailFast(config, mods, injectable, controllers,
                                          i + 1, bound)

\* controllers.forEach(ControllerClass => ...): a turn per entry of
\* globalThis.controllers, whatever the turns before it did
RECURSIVE BindControllers(_, _, _, _, _, _)
BindControllers(config, mods, injectable, controllers, i, acc) ==
    IF i > Len(controllers) THEN acc
    ELSE BindControllers(config, mods, injectable, controllers, i + 1,
                         BindOne(config, mods, injectable, controllers[i], acc))

\* The instance behind the first route registered for a controller class: the
\* transport runs the first chain that matches, and its last handler never
\* passes on.
RECURSIVE BoundTo(_, _, _)
BoundTo(registered, cls, i) ==
    IF i > Len(registered) THEN Absent
    ELSE IF registered[i].controller = cls THEN registered[i].instance
    ELSE BoundTo(registered, cls, i + 1)

\* The state once the classes are defined and before createApp: @Controller
\* has pushed each class it decorates, in the order the classes are defined.
Defined(mods) ==
    /\ modules = mods
    /\ LET g == [controllers |-> <<>>, providers |-> <<>>, log |-> <<>>]
           decorated == SelectSeq(mods.order, LAMBDA cls : cls \in mods.decorated)
           pushed == PushControllers(g, decorated, "Controller")
       IN  /\ globals = [controllers |-> pushed.controllers,
                         providers |-> pushed.providers]
           /\ events = pushed.log
    /\ routes = <<>>

\* An application of one module: the controller, declared with @Controller,
\* and the class it depends on
BasicModules ==
    [root |-> "Root",
     graph |-> [m \in {"Root"} |->
                  ModuleMetadata(<<>>, <<"Ctl">>, <<ClassProvider("Svc")>>)],
     decorated |-> {"Ctl"},
     order |-> <<"Ctl">>]

\* ------------------------------------------------------------------------
\* RateLimitMiddleware
\* ------------------------------------------------------------------------

MaxLimiters == 2
MaxTime == 2
MaxHandled == 4

\* req.ip of the clients; a request without an address has a falsy key
ClientKeys == {"ip1", "ip2"}
NoKey == ""

\* private static requests = new Map(): one map for the class, empty when
\* the module is loaded; no limiter has been created, the clock stands at 0,
\* no request has been handled and none answered
NoLimiters ==
    [created |-> <<>>,
     requests |-> <<>>,
     now |-> 0,
     handled |-> 0,
     window |-> <<>>,
     last |-> "none"]

\* const {windowMs = 15 * 60 * 1000, max = 100} = options
Destructure(opts) ==
    [windowMs |-> IF "windowMs" \in DOMAIN opts THEN opts.windowMs ELSE 15 * 60 * 1000,
     max |-> IF "max" \in DOMAIN opts THEN opts.max ELSE 100]

\* What the closure of one limiter does with the shared map for a key at time
\* now: whether next() is called and the map it leaves.
Limit(settings, map, key, now) ==
    IF key = NoKey
    THEN [next |-> TRUE, requests |-> map]
    ELSE IF key \notin DOMAIN map \/ now > map[key].resetTime
    THEN [next |-> TRUE,
          requests |-> [k \in DOMAIN map \cup {key} |->
                           IF k = key
                           THEN [count |-> 1, resetTime |-> now + settings.windowMs]
                           ELSE map[k]]]
    ELSE IF map[key].count < settings.max
    THEN [next |-> TRUE,
          requests |-> [map EXCEPT ![key].count = @ + 1]]
    ELSE [next |-> FALSE, requests |-> map]

\* The window of a limiter for a key, followed on the side: it opens with the
\* first request of the key the limiter passes on and lasts windowMs; passed
\* counts the requests the limiter passed on in it.
Counted(settings, windows, key, now) ==
    IF key \in DOMAIN windows /\ now <= windows[key].opened + settings.windowMs
    THEN [windows EXCEPT ![key].passed = @ + 1]
    ELSE [k \in DOMAIN windows \cup {key} |->
             IF k = key THEN [opened |-> now, passed |-> 1] ELSE windows[k]]

IdleDispatcher ==
    /\ app = <<>>
    /\ instance = Absent
    /\ requests = [d \in Requests |-> NewRequest]
    /\ resolves = 0

\* The state once the modules are loaded: the decorators have run and the
\* container holds the providers of the injectable classes.
Loaded(injectable, methodFilters, classFilters, exception) ==
    /\ NewContainer
    /\ meta = Declared(injectable, methodFilters, classFilters)
    /\ providers = [t \in {ClsTok(cls) : cls \in injectable} |->
                       InjectableProvider(ClassOf(t), InjectableScope(ClassOf(t)))]
    /\ options = Config(exception)
    /\ transformed = NoTransform
    /\ Defined(BasicModules)
    /\ IdleDispatcher
    /\ limiter = NoLimiters

\* Clients send a body that satisfies the rules or one without 'nick'; the
\* handler's logic raises an Error, or returns undefined or a value.
BasicInputs ==
    [bodies |-> {Body("str", "str"), Body("undef", "str")},
     errors |-> {PlainError(<<"m1">>)},
     results |-> {UndefinedResult, JsonResult(<<"ok">>)}]

\* The controller is @Injectable() or not; no filter is declared.
Init ==
    /\ \E injectable \in {{"Svc"}, {"Svc", "Ctl"}} :
          Loaded(injectable, <<>>, <<>>, Undefined)
    /\ inputs = BasicInputs

\* Filters are declared on the method, on the class, in the options, or not.
InitFilters ==
    /\ \E methodFilters \in {<<>>, <<"MF">>}, classFilters \in {<<>>, <<"CF">>},
          exception \in {Undefined, "GF"} :
             Loaded({"Svc"}, methodFilters, classFilters, exception)
    /\ inputs = BasicInputs

\* Clients also send bodies whose plain field 'name' breaks its rules; the
\* handler's logic raises structured HTTP exceptions and Errors.
AllInputs ==
    [bodies |-> {Body("str", "str"), Body("undef", "str"), Body("str", "num"),
                 Body("undef", "undef")},
     errors |-> {HttpException(404, <<"no such user">>), PlainError(<<"m1">>),
                 PlainError(<<"m2">>)},
     results |-> {UndefinedResult, JsonResult(<<"ok">>)}]

\* The built-in default filter or HttpExceptionFilter answers, or a filter of
\* the application declared on the method.
InitErrors ==
    /\ NewContainer
    /\ providers = [t \in {TokSvc} |-> InjectableProvider("Svc", InjectableScope("Svc"))]
    /\ \E methodFilters \in {<<>>, <<"MF">>}, dto \in {"Dto", Undefined} :
          meta = BodyDeclared(Declared({"Svc"}, methodFilters, <<>>), dto)
    /\ \E exception \in {Undefined, "HttpExceptionFilter"} :
          options = Config(exception)
    /\ inputs = AllInputs
    /\ transformed = NoTransform
    /\ Defined(BasicModules)
    /\ IdleDispatcher
    /\ limiter = NoLimiters

\* What defaultFilter, res.status(204).send() and res.json(result) put on the
\* response; 0 where the status is the filter's or the guard's own choice.
Write(by, status) == [by |-> by, status |-> status]

FilterWrite(filter) == Write(filter, IF filter = "defaultFilter" THEN 500 ELSE 0)

SetRequest(d, r) == requests' = [requests EXCEPT ![d] = r]

\* createApp: flatten the modules into the global collections, then make an
\* instance of each controller and register its routes
CreateApp ==
    /\ app = <<>>
    /\ LET g == FlattenRoot(modules.graph, modules.root,
                            [controllers |-> globals.controllers,
                             providers |-> globals.providers, log |-> events])
           b == BindControllers(options, modules, meta.injectable, g.controllers, 1,
                                [c |-> Container, routes |-> <<>>, log |-> g.log])
       IN  /\ globals' = [controllers |-> g.controllers, providers |-> g.providers]
           /\ SetContainer(b.c)
           /\ routes' = b.routes
           /\ events' = b.log
           /\ instance' = BoundTo(b.routes, "Ctl", 1)
    /\ app' = RouteStack(options, meta)
    /\ UNCHANGED <<registers, live, singletonFirst, transientSeen, called, declVars,
                   requests, resolves>>

\* a request for the route comes in
Arrive(d) ==
    /\ app # <<>>
    /\ requests[d].pc = "new"
    /\ SetRequest(d, [requests[d] EXCEPT !.pc = "chain", !.idx = 1])
    /\ UNCHANGED <<diVars, declVars, bootVars, resolves>>

\* mutant of RunMiddleware: next() hands the request to the head of the stack
RunMiddlewareFromHead(d) ==
    LET r == requests[d]
    IN  /\ r.pc = "chain"
        /\ app[r.idx].kind = "middleware"
        /\ SetRequest(d, [r EXCEPT !.idx = 1,
                                   !.trace = Append(@, app[r.idx].name)])
        /\ UNCHANGED <<diVars, declVars, bootVars, resolves>>

\* a middleware of the stack runs and calls next()
RunMiddleware(d) ==
    LET r == requests[d]
    IN  /\ r.pc = "chain"
        /\ app[r.idx].kind = "middleware"
        /\ SetRequest(d, [r EXCEPT !.idx = @ + 1,
                                   !.trace = Append(@, app[r.idx].name)])
        /\ UNCHANGED <<diVars, declVars, bootVars, resolves>>

\* a guard runs behind its wrapper: it calls next(), or writes a response
\* and does not
RunGuard(d) ==
    LET r == requests[d]
    IN  /\ r.pc = "chain"
        /\ app[r.idx].kind = "guard"
        /\ \E callsNext \in BOOLEAN :
             LET ran == [r EXCEPT !.trace = Append(@, app[r.idx].name),
                                  !.res = IF callsNext THEN @
                                          ELSE Append(@, Write(app[r.idx].name, 0))]
             IN  SetRequest(d, IF GuardWrapper(callsNext)
                               THEN [ran EXCEPT !.idx = @ + 1]
                               ELSE [ran EXCEPT !.pc = "halted"])
        /\ UNCHANGED <<diVars, declVars, bootVars, resolves>>

\* the terminal handler starts: it draws the request id and starts one async
\* closure per parameter, each running up to its first await
Enter(d) ==
    LET r == requests[d]
    IN  /\ r.pc = "chain"
        /\ app[r.idx].kind = "terminal"
        /\ \E requestId \in DispatchIds, body \in inputs.bodies :
             SetRequest(d, [r EXCEPT !.pc = "bind",
                                     !.id = requestId,
                                     !.body = body,
                                     !.closures = [i \in 1..Len(Params) |->
                                                      NextPipe(AllPipes, 1)],
                                     !.piped = [i \in 1..Len(Params) |-> <<>>]])
        /\ UNCHANGED <<diVars, declVars, bootVars, resolves>>

\* the transform a parameter closure awaits settles; the closure goes on to the
\* next pipe (k > 0), returns its value (0) or rejects (-1); the first
\* rejection is the one Promise.all rejects with. piped lists, per parameter,
\* the positions in allPipes of the pipes whose transform was called. A closure goes on whether or
\* not the Promise.all around it has been rejected already.
PipeSettle(d) ==
    LET r == requests[d]
    IN  /\ r.pc \in {"bind", "done"}
        /\ \E i \in DOMAIN r.closures :
             /\ r.closures[i] > 0
             /\ LET pipe == AllPipes[r.closures[i]]
                     value == ParamValue(Params[i], r.body)
                 IN  SetRequest(d,
                        IF PipeRaises(pipe, Params[i], value)
                        THEN [r EXCEPT !.closures[i] = -1,
                                       !.piped[i] = Append(@, r.closures[i]),
                                       !.error = IF @ = NoError
                                                 THEN Transform(value,
                                                        Metatype(Params[i])).error
                                                 ELSE @]
                        ELSE [r EXCEPT !.closures[i] = NextPipe(AllPipes, @ + 1),
                                       !.piped[i] = Append(@, r.closures[i])])
        /\ UNCHANGED <<diVars, declVars, bootVars, resolves>>

\* The way out of the terminal handler. With an error: the catch block selects
\* the filter and calls it; the filter writes its response or raises. Then the
\* finally block, and the async function settles (rejected if the filter
\* raised). Nothing is awaited on this path.
Leave(d, r, error, filterRaises) ==
    LET filter == SelectFilter(GetMetadata(meta, "methodFilters"),
                               GetMetadata(meta, "classFilters"),
                               options.exception)
        sent == Respond(filter, r.error)
        caught == IF error
                  THEN [r EXCEPT !.filters = Append(@, filter),
                                 !.caught = Append(@, FilterArgs(r.error, d)),
                                 !.res = IF filterRaises THEN @
                                         ELSE Append(@, Write(filter, sent.status)),
                                 !.sent = IF filterRaises THEN @ ELSE sent,
                                 !.rejected = filterRaises]
                  ELSE r
        cleanup == RunsCleanup(error /\ filterRaises)
    IN  /\ SetRequest(d, [caught EXCEPT !.pc = "done",
                                        !.clears = IF cleanup THEN Append(@, r.id)
                                                   ELSE @])
        /\ SetContainer(IF cleanup THEN ClearScope(Container, r.id) ELSE Container)

\* mutant of Invoke: a handler is invoked only while no other request's handler
\* is pending
InvokeWhenIdle(d) ==
    LET r == requests[d]
    IN  /\ r.pc = "bind"
        /\ \A e \in Requests \ {d} : requests[e].pc # "invoke"
        /\ \A i \in DOMAIN r.closures : r.closures[i] = 0
        /\ SetRequest(d, [r EXCEPT !.pc = "invoke",
                                   !.args = [i \in 1..Len(Params) |-> Params[i]],
                                   !.trace = Append(@, "handler"),
                                   !.dep = instance.args])
        /\ UNCHANGED <<diVars, declVars, bootVars, resolves>>

\* Promise.all resolved: handler.apply(instance, args) is called; args holds,
\* position by position, the binding whose piped value stands there
Invoke(d) ==
    LET r == requests[d]
    IN  /\ r.pc = "bind"
        /\ \A i \in DOMAIN r.closures : r.closures[i] = 0
        /\ SetRequest(d, [r EXCEPT !.pc = "invoke",
                                   !.args = [i \in 1..Len(Params) |-> Params[i]],
                                   !.trace = Append(@, "handler"),
                                   !.dep = instance.args])
        /\ UNCHANGED <<diVars, declVars, bootVars, resolves>>

\* Promise.all rejected with the error of a pipe
BindFail(d) ==
    LET r == requests[d]
    IN  /\ r.pc = "bind"
        /\ \E i \in DOMAIN r.closures : r.closures[i] = -1
        /\ \E filterRaises \in BOOLEAN : Leave(d, r, TRUE, filterRaises)
        /\ UNCHANGED <<registers, live, singletonFirst, transientSeen, called, declVars,
                       bootVars, resolves>>

\* application code of the handler asks the container for the request-scoped
\* service under a request id of its choosing
HandlerResolve(d) ==
    /\ requests[d].pc = "invoke"
    /\ resolves < MaxResolves
    /\ resolves' = resolves + 1
    /\ \E requestId \in DispatchIds :
         SetContainer(Get(Container, TokSvc, requestId, MaxDepth).c)
    /\ UNCHANGED <<registers, live, singletonFirst, transientSeen, called, declVars,
                   bootVars, requests>>

\* mutant of HandlerReturn: the answer is sent and the catch block runs as well
HandlerReturnThenCatch(d) ==
    LET r == requests[d]
    IN  /\ r.pc = "invoke"
        /\ \E result \in inputs.results :
             Leave(d, [r EXCEPT !.result = result,
                                !.res = Append(@, Write("handler",
                                                        ResponseFor(result).status)),
                                !.sent = ResponseFor(result)],
                   TRUE, FALSE)
        /\ UNCHANGED <<registers, live, singletonFirst, transientSeen, called, declVars,
                       bootVars, resolves>>

\* the handler's promise resolves: 204 for undefined, else res.json(result)
HandlerReturn(d) ==
    LET r == requests[d]
    IN  /\ r.pc = "invoke"
        /\ \E result \in inputs.results :
             Leave(d, [r EXCEPT !.result = result,
                                !.res = Append(@, Write("handler",
                                                        ResponseFor(result).status)),
                                !.sent = ResponseFor(result)],
                   FALSE, FALSE)
        /\ UNCHANGED <<registers, live, singletonFirst, transientSeen, called, declVars,
                       bootVars, resolves>>

\* the handler raises
HandlerThrow(d) ==
    LET r == requests[d]
    IN  /\ r.pc = "invoke"
        /\ \E error \in inputs.errors, filterRaises \in BOOLEAN :
             Leave(d, [r EXCEPT !.error = error], TRUE, filterRaises)
        /\ UNCHANGED <<registers, live, singletonFirst, transientSeen, called, declVars,
                       bootVars, resolves>>

Next ==
    \/ CreateApp
    \/ \E d \in Requests : Arrive(d)
    \/ \E d \in Requests : RunMiddleware(d)
    \/ \E d \in Requests : RunGuard(d)
    \/ \E d \in Requests : Enter(d)
    \/ \E d \in Requests : PipeSettle(d)
    \/ \E d \in Requests : Invoke(d)
    \/ \E d \in Requests : BindFail(d)
    \/ \E d \in Requests : HandlerResolve(d)
    \/ \E d \in Requests : HandlerReturn(d)
    \/ \E d \in Requests : HandlerThrow(d)

\* The application: bootstrap, then requests dispatched concurrently, their
\* handlers using the container.
Spec == Init /\ [][Next]_vars

\* A continuation of the request that is ready to run: its next middleware
\* or guard, the start of its terminal handler, a settled transform, the
\* settled Promise.all, the settled promise of its handler
Continue(d) ==
    \/ RunMiddleware(d) \/ RunGuard(d) \/ Enter(d) \/ PipeSettle(d)
    \/ Invoke(d) \/ BindFail(d) \/ HandlerReturn(d) \/ HandlerThrow(d)

\* The event loop runs every continuation that stays ready. The promise of
\* the handler of request 1 may stay pending for ever; what the other
\* requests await settles.
SpecHang ==
    Init /\ [][Next]_vars /\ \A d \in Requests \ {1} : WF_vars(Continue(d))

NextFilters ==
    \/ CreateApp
    \/ \E d \in Requests : Arrive(d)
    \/ \E d \in Requests : RunMiddleware(d)
    \/ \E d \in Requests : RunGuard(d)
    \/ \E d \in Requests : Enter(d)
    \/ \E d \in Requests : PipeSettle(d)
    \/ \E d \in Requests : Invoke(d)
    \/ \E d \in Requests : BindFail(d)
    \/ \E d \in Requests : HandlerReturn(d)
    \/ \E d \in Requests : HandlerThrow(d)

\* The application under each declaration of exception filters.
SpecFilters == InitFilters /\ [][NextFilters]_vars

\* The application under each kind of failing request.
SpecErrors == InitErrors /\ [][NextFilters]_vars

\* ---- The application under each declaration of parameters and pipes ----

\* The parameter arrays the decorators leave on the handler: both parameters
\* decorated; a first parameter without a decorator; one without a decorator
\* between two decorated ones.
ParamShapes ==
    {<<ParamBinding(1, "id"), BodyBinding(2, "Dto")>>,
     <<Hole, BodyBinding(2, "Dto")>>,
     <<ParamBinding(1, "id"), Hole, BodyBinding(3, "Dto")>>}

\* globalPipes: a pipe instance, as in new ValidationPipe(...); a pipe class
\* of the application; none
GlobalPipeLists ==
    {<<[kind |-> "instance", name |-> "ValidationPipe"]>>,
     <<[kind |-> "class", name |-> "AppPipe"]>>,
     <<>>}

\* @UseInterceptors(LoggingInterceptor) on the controller class, on the
\* route method, or nowhere
InterceptorDeclarations ==
    {<<>>,
     [k \in {"classInterceptors"} |-> <<"LoggingInterceptor">>],
     [k \in {"methodInterceptors"} |-> <<"LoggingInterceptor">>]}

InitArgs ==
    /\ NewContainer
    /\ providers = [t \in {TokSvc} |-> InjectableProvider("Svc", InjectableScope("Svc"))]
    /\ \E stored \in ParamShapes, interceptors \in InterceptorDeclarations :
          meta = [Declared({"Svc"}, <<>>, <<>>) EXCEPT !.params = stored] @@ interceptors
    /\ \E globalPipes \in GlobalPipeLists :
          options = [Config(Undefined) EXCEPT !.globalPipes = globalPipes]
    /\ inputs = BasicInputs
    /\ transformed = NoTransform
    /\ Defined(BasicModules)
    /\ IdleDispatcher
    /\ limiter = NoLimiters

SpecArgs == InitArgs /\ [][NextFilters]_vars

\* The rule lists a property's decorators record
RuleLists == {<<>>, <<"IsRequired">>, <<"IsRequired", "IsString">>, <<"IsNumber">>}

\* The metatypes transform is called with: none, a primitive wrapper, or a
\* class with the properties 'nick' and 'name', each a plain field or an own
\* property of the prototype, each with rules
Metatypes ==
    {NoType, Class("String", <<>>)}
    \cup {Class("Dto", <<Prop("nick", own1, rules1), Prop("name", own2, rules2)>>) :
             own1 \in BOOLEAN, own2 \in BOOLEAN,
             rules1 \in RuleLists, rules2 \in RuleLists}

\* ValidationPipe.transform about to be called on a plain object
InitValidation ==
    /\ InitContainer
    /\ meta = Declared({}, <<>>, <<>>)
    /\ options = Config(Undefined)
    /\ inputs = BasicInputs
    /\ Defined(BasicModules)
    /\ IdleDispatcher
    /\ limiter = NoLimiters
    /\ \E metatype \in Metatypes, value \in Plains :
          transformed = [metatype |-> metatype, value |-> value,
                         returned |-> FALSE, out |-> Transform("undef", NoType)]

\* await new ValidationPipe().transform(value, {metatype})
ApplyTransform ==
    /\ ~transformed.returned
    /\ transformed' = [transformed EXCEPT
                          !.returned = TRUE,
                          !.out = Transform(transformed.value, transformed.metatype)]
    /\ UNCHANGED <<diVars, meta, inputs, options, modules, limiter, bootVars, requests,
                   resolves>>

NextValidation == ApplyTransform

\* ValidationPipe.transform as a function of its arguments.
SpecValidation == InitValidation /\ [][NextValidation]_vars

\* ---- createApp on its own, over module graphs ----

\* A root module that imports A, B, both, or A twice; A and B import the
\* shared module S or not. The root lists the controller Ctl and the
\* injectable class Svc, A a class Opt that is not @Injectable, B and S a
\* descriptor each, S the controller CtlS; B lists the controller CtlBad,
\* whose constructor throws, or none. Ctl and CtlS are each declared
\* with @Controller or not, and the classes are defined in either order.
ModuleGraphs ==
    { [root |-> "Root",
       graph |-> [m \in {"Root", "A", "B", "S"} |->
                    CASE m = "Root" -> ModuleMetadata(rootImports, <<"Ctl">>,
                                                      <<ClassProvider("Svc")>>)
                      [] m = "A" -> ModuleMetadata(aImports, <<>>,
                                                   <<ClassProvider("Opt")>>)
                      [] m = "B" -> ModuleMetadata(bImports, bControllers,
                                                   <<ValueProvider("KEY")>>)
                      [] m = "S" -> ModuleMetadata(<<>>, <<"CtlS">>,
                                                   <<ValueProvider("URL")>>)],
       decorated |-> decorated,
       order |-> order] :
        rootImports \in {<<>>, <<"A">>, <<"A", "B">>, <<"B", "A">>, <<"A", "A">>},
        aImports \in {<<>>, <<"S">>},
        bImports \in {<<>>, <<"S">>},
        bControllers \in {<<>>, <<"CtlBad">>},
        decorated \in SUBSET {"Ctl", "CtlS"},
        order \in {<<"CtlS", "Ctl">>, <<"Ctl", "CtlS">>} }

InitBoot ==
    /\ NewContainer
    /\ \E injectable \in {{"Svc"}, {"Svc", "Ctl"}} :
          /\ meta = Declared(injectable, <<>>, <<>>)
          /\ providers = [t \in {ClsTok(cls) : cls \in injectable} |->
                             InjectableProvider(ClassOf(t), InjectableScope(ClassOf(t)))]
    /\ \E prefix \in {<<>>, <<"/api">>} :
          options = Config(Undefined) @@
                    (IF prefix = <<>> THEN <<>> ELSE [k \in {"globalPrefix"} |-> prefix])
    /\ inputs = BasicInputs
    /\ transformed = NoTransform
    /\ \E mods \in ModuleGraphs : Defined(mods)
    /\ IdleDispatcher
    /\ limiter = NoLimiters

NextBoot == CreateApp

SpecBoot == InitBoot /\ [][NextBoot]_vars

\* ---- The container resolving classes with @Inject and @Optional ----

\* the classes application code asks the container for
ClientClasses == {"Ctl", "Inj", "MayHave", "Two", "Req"}

\* the function from token to descriptor that registering a set of
\* descriptors, one per token, leaves in DIContainer.providers
Registry(descriptors) ==
    [t \in {d.provide : d \in descriptors} |->
        CHOOSE d \in descriptors : d.provide = t]

\* Each client class is registered as @Injectable does, all with one scope;
\* Svc is registered as a singleton, with request scope, or not at all; the
\* token 'c' as a value, as a request-scoped class, or not at all.
InitInject ==
    /\ NewContainer
    /\ \E scope \in Scopes,
          svc \in SUBSET {Provider(TokSvc, "Svc", Undefined, Undefined, <<>>, s) :
                            s \in {Undefined, REQUEST}},
          c \in SUBSET {Provider(TokC, Undefined, "v1", Undefined, <<>>, Undefined),
                        Provider(TokC, "Svc", Undefined, Undefined, <<>>, REQUEST)} :
          /\ Cardinality(svc) <= 1
          /\ Cardinality(c) <= 1
          /\ providers = Registry({InjectableProvider(cls, scope) : cls \in ClientClasses}
                                  \cup svc \cup c)
    /\ meta = Declared({}, <<>>, <<>>)
    /\ options = Config(Undefined)
    /\ inputs = BasicInputs
    /\ transformed = NoTransform
    /\ Defined(BasicModules)
    /\ IdleDispatcher
    /\ limiter = NoLimiters

\* container.get(cls, requestId) from application code
Resolve(cls, requestId) ==
    LET r == Get(Container, ClsTok(cls), requestId, MaxDepth)
    IN  /\ r.c.created <= MaxObjects + 1
        /\ SetContainer(r.c)
        /\ UNCHANGED <<registers, live, singletonFirst, transientSeen, called>>
        /\ UNCHANGED dispVars

NextInject ==
    \/ \E cls \in ClientClasses, requestId \in RequestIds \cup {NoId} :
          Resolve(cls, requestId)
    \/ \E requestId \in RequestIds : ClearCall(requestId)

SpecInject == InitInject /\ [][NextInject]_vars

\* ------------------------------------------------------------------------
\* The container resolving values, factories and classes that depend on each
\* other
\* ------------------------------------------------------------------------
GraphClasses == {"Req", "CycA", "CycB", "OptA", "OptB"}

\* {provide: 'c', useValue}: a constant, null, or undefined
ValueDescriptors ==
    {Provider(TokC, Undefined, v, Undefined, <<>>, Undefined) :
        v \in {"v1", "null", Undefined}}

\* {provide: 'b_c', useFactory, inject: [Svc, 'c'], scope}
FactoryDescriptors ==
    {Provider(TokBC, Undefined, Undefined, "mkFresh", <<TokSvc, TokC>>, REQUEST),
     Provider(TokBC, Undefined, Undefined, "mkShared", <<TokSvc, TokC>>, Undefined)}

GraphTokens == {ClsTok(cls) : cls \in GraphClasses} \cup {TokSvc, TokC, TokBC}

\* The classes are registered as @Injectable does, all singletons or all
\* request-scoped; Svc is request-scoped; 'c' is a value and 'b_c' a factory.
InitGraph ==
    /\ NewContainer
    /\ \E scope \in {Undefined, REQUEST}, value \in ValueDescriptors,
          factory \in FactoryDescriptors :
          providers = Registry({InjectableProvider(cls, scope) : cls \in GraphClasses}
                               \cup {InjectableProvider("Svc", REQUEST), value, factory})
    /\ meta = Declared({}, <<>>, <<>>)
    /\ options = Config(Undefined)
    /\ inputs = BasicInputs
    /\ transformed = NoTransform
    /\ Defined(BasicModules)
    /\ IdleDispatcher
    /\ limiter = NoLimiters

\* container.get(token, requestId) from application code; a call that throws
\* leaves what the calls nested in it have stored
GetToken(token, requestId) ==
    LET r == Get(Container, token, requestId, MaxDepth)
    IN  /\ r.c.created <= MaxObjects + 1
        /\ SetContainer(r.c)
        /\ called' = [made |-> TRUE, token |-> token, requestId |-> requestId,
                       before |-> Container, out |-> r]
        /\ UNCHANGED <<registers, live, singletonFirst, transientSeen>>
        /\ UNCHANGED dispVars

NextGraph ==
    \/ \E token \in GraphTokens, requestId \in {IdA, NoId} :
          GetToken(token, requestId)
    \/ Register(InjectableProvider("Gone", Undefined))

SpecGraph == InitGraph /\ [][NextGraph]_vars

\* The container on its own, before any application is created on it.
InitDI ==
    /\ InitContainer
    /\ meta = Declared({}, <<>>, <<>>)
    /\ options = Config(Undefined)
    /\ inputs = BasicInputs
    /\ transformed = NoTransform
    /\ Defined(BasicModules)
    /\ IdleDispatcher
    /\ limiter = NoLimiters

NextDI ==
    \/ \E provider \in Descriptors : Register(provider)
    \/ \E token \in Tokens, requestId \in RequestIds \cup {NoId} :
          GetCall(token, requestId)
    \/ \E requestId \in RequestIds : ClearCall(requestId)

\* The container driven through its public interface.
SpecDI == InitDI /\ [][NextDI]_vars

\* ------------------------------------------------------------------------
\* Claims about the container (checked under SpecDI)
\* ------------------------------------------------------------------------
AnyId == RequestIds \cup {NoId}

\* what the call get(token, requestId) returns in the current state
Returned(token, requestId) == Get(Container, token, requestId, MaxDepth)

IsLifetime(token, lifetime) ==
    Has(providers, token) /\ Lifetime(providers[token]) = lifetime

IsSource(token, kind) ==
    Has(providers, token) /\ SourceKind(providers[token]) = kind

\* the call constructed the object it returns
Fresh(r) == r.val.kind = "obj" /\ r.val.n > created

\* C1: for a request-lifetime provider, a get under (token, id) returns the
\* instance the previous get under (token, id) returned when id was not
\* cleared in between, and never an instance that a get under another
\* request id returned; for every token and id, '_' included.
C1_RequestScopeIdentity ==
    [][\A t \in Tokens, id \in RequestIds :
          (GetCall(t, id) /\ IsLifetime(t, REQUEST) /\ Returned(t, id).ok) =>
             /\ (live[<<t, id>>].val # Absent /\ ~live[<<t, id>>].cleared)
                   => Returned(t, id).val = live[<<t, id>>].val
             /\ \A p \in Tokens \X RequestIds :
                   (p[2] # id /\ live[p].val.kind = "obj")
                      => Returned(t, id).val # live[p].val]_diVars

\* C2: after clearRequestScope(id) the next get(token, id) of a request-
\* lifetime provider builds a new instance, different from every instance
\* returned under id before the clear (stated for the descriptors that
\* build an instance: the class descriptors).
C2_NewAfterClear ==
    [][\A t \in Tokens, id \in RequestIds :
          (GetCall(t, id) /\ IsLifetime(t, REQUEST) /\ IsSource(t, "class")
             /\ Returned(t, id).ok /\ live[<<t, id>>].cleared) =>
                /\ Fresh(Returned(t, id))
                /\ \A t2 \in Tokens : Returned(t, id).val # live[<<t2, id>>].val]_diVars

\* C3: every get of a singleton-lifetime provider returns the instance its
\* first singleton get returned, with or without a request id, whatever
\* register, get and clearRequestScope calls came in between.
C3_SingletonUnique ==
    [][\A t \in Tokens, id \in AnyId :
          (GetCall(t, id) /\ IsLifetime(t, SINGLETON) /\ Returned(t, id).ok
             /\ singletonFirst[t].gets > 0) =>
                Returned(t, id).val = singletonFirst[t].val]_diVars

\* C3 witness: a singleton was resolved twice, an object was constructed
\* after its instance, and the request cache was used in between.
C3_Witness ==
    /\ IsLifetime(TokC, SINGLETON)
    /\ singletonFirst[TokC].gets = 2
    /\ singletonFirst[TokC].val.kind = "obj" /\ singletonFirst[TokC].val.n = 1
    /\ created = 2
    /\ live[<<TokBC, IdA>>].cleared

\* C4 as stated: every get of a transient provider, whatever the source kind
\* of its descriptor, returns an instance distinct from the earlier ones and
\* stores nothing for the token in either cache.
C4_TransientFresh ==
    [][\A t \in Tokens, id \in AnyId :
          (GetCall(t, id) /\ IsLifetime(t, TRANSIENT) /\ Returned(t, id).ok) =>
             /\ Returned(t, id).val # transientSeen[t].val
             /\ SlotsOf(Returned(t, id).c, t) = SlotsOf(Container, t)]_diVars

\* C4 amended: a get of a transient provider stores nothing for the token in
\* either cache, whatever the source kind; a class descriptor yields an
\* object constructed by this call (N gets, N distinct instances), a
\* useValue descriptor yields the registered value on every call.
C4_TransientNeverCached ==
    [][\A t \in Tokens, id \in AnyId :
          (GetCall(t, id) /\ IsLifetime(t, TRANSIENT) /\ Returned(t, id).ok) =>
             /\ SlotsOf(Returned(t, id).c, t) = SlotsOf(Container, t)
             /\ IsSource(t, "class")
                   => /\ Fresh(Returned(t, id))
                      /\ Returned(t, id).val # transientSeen[t].val
             /\ IsSource(t, "value")
                   => Returned(t, id).val = Value(providers[t].useValue)]_diVars

\* C4 witness: a transient class was resolved twice and the second get
\* returned the second object; neither cache holds anything.
C4_Witness ==
    /\ IsLifetime(TokC, TRANSIENT) /\ IsSource(TokC, "class")
    /\ transientSeen[TokC].gets = 2
    /\ transientSeen[TokC].val.kind = "obj" /\ transientSeen[TokC].val.n = 2
    /\ DOMAIN instances = {} /\ DOMAIN requestInstances = {}

\* ------------------------------------------------------------------------
\* Claims about the dispatcher (checked under Spec and SpecFilters)
\* ------------------------------------------------------------------------
Dispatched(d) == requests[d].dep # <<>>

Finished(d) == requests[d].pc = "done"

ChainOrder == <<"A", "B", "C", "G1", "G2", "handler">>

IsPrefix(s, t) == Len(s) <= Len(t) /\ \A i \in 1..Len(s) : s[i] = t[i]

GuardRejected(d) ==
    \E j \in DOMAIN requests[d].res : requests[d].res[j].by \in {"G1", "G2"}

HasKeyOf(requestId) ==
    \E k \in DOMAIN requestInstances : StartsWith(k.s, requestId \o <<"_">>)

\* C5: two dispatches of the route, under two request ids, hand the handler
\* two different instances of the controller's request-scoped dependency.
C5_DistinctDependency ==
    \A d1, d2 \in Requests :
       (d1 # d2 /\ Dispatched(d1) /\ Dispatched(d2)
          /\ requests[d1].id # requests[d2].id)
          => requests[d1].dep # requests[d2].dep

\* C6: a dispatch that entered parameter binding and is over has called
\* clearRequestScope exactly once, with its own request id and no other,
\* whichever way it ended (handler returned, handler raised, a pipe raised,
\* the filter raised); a dispatch that is not over has not called it.
C6_CleanupOncePerRequest ==
    \A d \in Requests :
       /\ Finished(d) => requests[d].clears = <<requests[d].id>>
       /\ ~Finished(d) => requests[d].clears = <<>>

C6_Witness ==
    /\ Finished(1) /\ requests[1].rejected /\ requests[1].trace = ChainOrder
    /\ requests[1].clears = <<requests[1].id>>
    /\ Finished(2) /\ requests[2].rejected /\ ~Dispatched(2)
    /\ requests[2].clears = <<requests[2].id>>

\* C7: while a dispatch is over, the request cache holds no entry under its
\* request id.
C7_NoEntryAfterDispatch ==
    \A d \in Requests : Finished(d) => ~HasKeyOf(requests[d].id)

\* C8: the stages a request has run are A, B, C, G1, G2, handler in this
\* order, each once; a request whose handler was invoked has run all of them.
C8_ChainOrder ==
    \A d \in Requests :
       /\ IsPrefix(requests[d].trace, ChainOrder)
       /\ Dispatched(d) => requests[d].trace = ChainOrder

C8_Witness ==
    /\ Finished(1) /\ requests[1].trace = ChainOrder
    /\ requests[1].res = <<Write("handler", 200)>>
    /\ requests[2].pc = "invoke" /\ requests[2].trace = ChainOrder

\* C9: once a guard has written a response without calling next, the request
\* stays where that guard left it: the guard is the last stage run, no request
\* id is drawn, no parameter is bound, no pipe runs, the handler is not
\* invoked, no filter is invoked and nothing else is written.
C9_GuardShortCircuit ==
    \A d \in Requests :
       GuardRejected(d) =>
          /\ requests[d].pc = "halted"
          /\ requests[d].trace \in {<<"A", "B", "C", "G1">>,
                                    <<"A", "B", "C", "G1", "G2">>}
          /\ requests[d].id = NoId
          /\ requests[d].closures = <<>>
          /\ requests[d].filters = <<>>
          /\ requests[d].clears = <<>>
          /\ ~Dispatched(d)
          /\ Len(requests[d].res) = 1

C9_Witness ==
    /\ requests[1].pc = "halted" /\ requests[1].trace = <<"A", "B", "C", "G1">>
    /\ requests[1].res = <<Write("G1", 0)>>
    /\ requests[2].pc = "halted"
    /\ requests[2].trace = <<"A", "B", "C", "G1", "G2">>
    /\ requests[2].res = <<Write("G2", 0)>>

\* C10: when binding or the handler raised, exactly one filter is invoked: the
\* method-level one if declared, else the class-level one if declared, else
\* the one given to createApp, else defaultFilter; unless it raises, its
\* output is the response.
C10_FilterPriority ==
    \A d \in Requests :
       LET r == requests[d]
           method == "methodFilters" \in DOMAIN meta
           class == "classFilters" \in DOMAIN meta
           global == options.exception # Undefined
       IN  /\ (Finished(d) /\ r.res = <<>>) => r.rejected
           /\ (Finished(d) /\ (~Dispatched(d) \/ r.res = <<>>)) => Len(r.filters) = 1
           /\ r.filters # <<>> =>
                /\ Len(r.filters) = 1
                /\ method => r.filters[1] = "MF"
                /\ (~method /\ class) => r.filters[1] = "CF"
                /\ (~method /\ ~class /\ global) => r.filters[1] = "GF"
                /\ (~method /\ ~class /\ ~global) => r.filters[1] = "defaultFilter"
                /\ ~r.rejected => r.res = <<FilterWrite(r.filters[1])>>
                /\ r.rejected => r.res = <<>>

C10_Witness ==
    /\ "methodFilters" \in DOMAIN meta /\ "classFilters" \in DOMAIN meta
    /\ options.exception # Undefined
    /\ Finished(1) /\ Dispatched(1) /\ requests[1].res = <<Write("MF", 0)>>
    /\ Finished(2) /\ ~Dispatched(2) /\ requests[2].res = <<Write("MF", 0)>>

\* C11: a dispatch that is over and in which binding, a pipe or the handler
\* raised has invoked exactly one filter, once, with the raised error and the
\* response of this request; a dispatch in which nothing raised, or which is
\* not over, has invoked none.
C11_OneFilterPerFailure ==
    \A d \in Requests :
       LET r == requests[d]
       IN  /\ (Finished(d) /\ r.error # NoError) =>
                 /\ Len(r.filters) = 1
                 /\ r.caught = <<[error |-> r.error, res |-> d]>>
           /\ (~Finished(d) \/ r.error = NoError) =>
                 /\ r.filters = <<>>
                 /\ r.caught = <<>>

C11_Witness ==
    /\ Finished(1) /\ requests[1].error.kind = "ValidationException"
    /\ requests[1].caught = <<[error |-> requests[1].error, res |-> 1]>>
    /\ Finished(2) /\ requests[2].error = PlainError(<<"m1">>)
    /\ requests[2].caught = <<[error |-> PlainError(<<"m1">>), res |-> 2]>>

\* ------------------------------------------------------------------------
\* Claims about validation (checked under SpecValidation and SpecErrors)
\* ------------------------------------------------------------------------
\* The messages of the rules a plain object violates, over every declared
\* property of the class
RECURSIVE ViolatedRules(_, _, _)
ViolatedRules(cls, plain, i) ==
    IF i > Len(cls.props) THEN <<>>
    ELSE RuleErrors(cls.props[i].name, cls.props[i].rules,
                    plain[cls.props[i].name], 1)
         \o ViolatedRules(cls, plain, i + 1)

\* C12: transform on a user-defined class raises a ValidationException
\* listing one message for every violated rule of every declared property
\* when there is one, and else returns an instance of the class carrying the
\* input's properties.
C12_ValidationComplete ==
    (transformed.returned /\ transformed.metatype.name = "Dto") =>
       LET violated == ViolatedRules(transformed.metatype, transformed.value, 1)
       IN  IF violated # <<>>
           THEN /\ ~transformed.out.ok
                /\ transformed.out.error.kind = "ValidationException"
                /\ transformed.out.error.errors = violated
           ELSE /\ transformed.out.ok
                /\ transformed.out.val
                      = PlainToClass(transformed.metatype, transformed.value)

\* C13: under the ValidationPipe, a request whose body violates a rule of the
\* body parameter's DTO class never has its handler invoked.
C13_InvalidBodyNeverDispatched ==
    \A d \in Requests :
       Dispatched(d) => ViolatedRules(BodyDto, requests[d].body, 1) = <<>>

\* A dispatch that is over and was answered by the filter named
AnsweredBy(d, filter) ==
    /\ Finished(d)
    /\ requests[d].filters = <<filter>>
    /\ ~requests[d].rejected

BuiltInFilters == {"defaultFilter", "HttpExceptionFilter"}

\* C14: a request that fails validation is answered with a 4xx status, and
\* the response carries the message of every violated rule, whichever of
\* the built-in filters answers.
C14_ValidationIsClientError ==
    \A d \in Requests, filter \in BuiltInFilters :
       (AnsweredBy(d, filter) /\ requests[d].error.kind = "ValidationException") =>
          /\ requests[d].sent.status \in 400..499
          /\ requests[d].sent.body.error = requests[d].error.message

\* C15: a structured HTTP exception raised by the handler is answered with
\* the status and the message it carries, whichever of the built-in filters
\* answers.
C15_HttpExceptionVerbatim ==
    \A d \in Requests, filter \in BuiltInFilters :
       (AnsweredBy(d, filter) /\ requests[d].error.kind = "http") =>
          /\ requests[d].sent.status = requests[d].error.status
          /\ requests[d].sent.body.message = requests[d].error.message

\* C16: two requests that fail with an Error and are answered by the default
\* filter get the same response, with status 500, whatever the messages of
\* the two errors.
C16_DefaultFilterGeneric ==
    \A d1, d2 \in Requests :
       (/\ AnsweredBy(d1, "defaultFilter") /\ requests[d1].error.kind = "error"
        /\ AnsweredBy(d2, "defaultFilter") /\ requests[d2].error.kind = "error") =>
          /\ requests[d1].sent.status = 500
          /\ requests[d1].sent = requests[d2].sent

\* ---- Module loading ----

Started == app # <<>>

Elements(seq) == {seq[i] : i \in DOMAIN seq}

\* The modules a set of modules reaches through imports, themselves included
RECURSIVE ReachableFrom(_, _)
ReachableFrom(graph, ms) ==
    LET next == ms \cup UNION {Elements(graph[m].imports) : m \in ms}
    IN  IF next = ms THEN ms ELSE ReachableFrom(graph, next)

\* the modules createApp loads
LoadedModules == ReachableFrom(modules.graph, {modules.root})

\* how many times the loading of a module appended an item to a collection
Appends(coll, item, by) ==
    Cardinality({i \in DOMAIN events : events[i] = Pushed(coll, item, by)})

\* two modules that both import a third, all three loaded
Diamond ==
    \E m1, m2, shared \in LoadedModules :
        /\ m1 # m2
        /\ shared \in Elements(modules.graph[m1].imports)
        /\ shared \in Elements(modules.graph[m2].imports)

\* C17: once createApp has run, the loading has appended each controller and
\* each provider of every loaded module to the global collections exactly
\* once, a module imported by two modules, or twice by one, included.
C17_LoadedOnce ==
    Started =>
        \A m \in LoadedModules :
            /\ \A cls \in Elements(modules.graph[m].controllers) :
                  Appends("controllers", ClsTok(cls), m) = 1
            /\ \A listed \in Elements(modules.graph[m].providers) :
                  Appends("providers", listed.provide, m) = 1

\* the controller classes that are declared with @Controller and listed in a
\* loaded module's controllers
BoundControllers ==
    {cls \in modules.decorated :
        \E m \in LoadedModules : cls \in Elements(modules.graph[m].controllers)}

\* how many instances of a controller class createApp made
Instances(cls) == Cardinality({i \in DOMAIN events : events[i] = Instantiated(cls)})

\* how many handler chains the transport holds under a method and a path
Chains(method, path) ==
    Cardinality({i \in DOMAIN routes :
                    routes[i].method = method /\ routes[i].path = path})

\* C18: once createApp has run, every controller class that is declared with
\* @Controller and listed in a loaded module has exactly one instance, and
\* each of its routes has exactly one handler chain registered under its
\* method and the path globalPrefix + controllerPrefix + routePath.
C18_BoundOnce ==
    Started =>
        \A cls \in BoundControllers :
            /\ Instances(cls) = 1
            /\ \A route \in Elements(Routes(cls)) :
                  Chains(route.method,
                         GlobalPrefix(options) \o Prefix(modules, cls) \o route.path) = 1

\* the modules a module reaches through its imports
ImportedBelow(m) == ReachableFrom(modules.graph, Elements(modules.graph[m].imports))

\* the loading of a module appended an item before position p of the log
AppendedBefore(coll, item, by, p) ==
    \E q \in 1..(p - 1) : events[q] = Pushed(coll, item, by)

C20_ProvidersRegistered ==
    Started =>
        \A m \in LoadedModules :
            \A listed \in Elements(modules.graph[m].providers) :
                /\ Has(providers, listed.provide)
                /\ Get(Container, listed.provide, NoId, MaxDepth).ok

\* ---- Controller binding ----

\* the transport holds a chain for a route of a controller class
RouteRegistered(cls, route) ==
    \E k \in DOMAIN routes :
        /\ routes[k].controller = cls
        /\ routes[k].method = route.method
        /\ routes[k].path = FullPath(options, Prefix(modules, cls), route)

\* C21: createApp returns an application in which every route of every
\* controller of the list that instantiates is registered and no route of a
\* controller whose instantiation fails is, wherever in the list the failing
\* controllers stand.
C21_PartialFailureTolerant ==
    Started =>
        \A i \in DOMAIN globals.controllers :
            LET cls == globals.controllers[i]
            IN  IF ConstructorThrows(cls)
                THEN \A k \in DOMAIN routes : routes[k].controller # cls
                ELSE \A route \in Elements(Routes(cls)) : RouteRegistered(cls, route)

\* createApp has run over a list in which a controller that fails stands
\* between two that are bound
C21_Witness ==
    /\ Started
    /\ \E i, j, k \in DOMAIN globals.controllers :
          /\ i < j /\ j < k
          /\ ConstructorThrows(globals.controllers[j])
          /\ Failed(globals.controllers[j]) \in Elements(events)
          /\ \A n \in {i, k} :
                /\ ~ConstructorThrows(globals.controllers[n])
                /\ \A route \in Elements(Routes(globals.controllers[n])) :
                      RouteRegistered(globals.controllers[n], route)

\* ---- Resolution of unregistered types ----

\* the classes of the applications createApp is given
AppClasses == {"Ctl", "CtlS", "CtlBad", "Svc", "Opt"}

\* a class that can be constructed: its constructor does not throw and the
\* container resolves each of its constructor parameters
Constructible(cls) ==
    /\ ~ConstructorThrows(cls)
    /\ \A i \in DOMAIN ParamTypes(cls) : Returned(ParamTypes(cls)[i], NoId).ok

\* C22: once createApp has run, container.get of a class that has no
\* descriptor but can be constructed, its constructor dependencies all
\* resolvable, constructs and returns an instance instead of failing with
\* provider-not-found.
C22_AutoConstruct ==
    Started =>
        \A cls \in AppClasses :
            (~Has(providers, ClsTok(cls)) /\ Constructible(cls)) =>
                /\ Returned(ClsTok(cls), NoId).ok
                /\ Returned(ClsTok(cls), NoId).val.cls = cls

\* ---- Constructor parameters ----

\* get(token, requestId) finds no instance in the cache the token's scope
\* uses, and so builds one
Constructs(token, requestId) ==
    /\ Has(providers, token)
    /\ LET scope == ScopeOf(providers[token])
           cacheKey == CacheKey(requestId, scope, token)
       IN  /\ ~(scope = SINGLETON /\ Has(instances, cacheKey))
           /\ ~(scope = REQUEST /\ requestId # NoId /\ Has(requestInstances, cacheKey))

\* The arguments a class is to be constructed with: position by position, what
\* get returns under the request id for the @Inject token of the position, or
\* for its declared type; null where that fails and the position is
\* @Optional; failed where it fails and the position is not.
RECURSIVE Arguments(_, _, _, _, _)
Arguments(c, cls, requestId, i, acc) ==
    IF i > Len(ParamTypes(cls)) THEN [failed |-> FALSE, args |-> acc, c |-> c]
    ELSE LET token == IF InjectToken(cls, i) # Absent THEN InjectToken(cls, i)
                      ELSE ParamTypes(cls)[i]
             d == Get(c, token, requestId, MaxDepth - 1)
         IN  IF d.ok THEN Arguments(d.c, cls, requestId, i + 1, Append(acc, d.val))
             ELSE IF IsOptional(cls, i)
             THEN Arguments(d.c, cls, requestId, i + 1, Append(acc, Null))
             ELSE [failed |-> TRUE, args |-> acc, c |-> d.c]

\* C23: when a get constructs a class, the instance it returns holds, at each
\* constructor position, what the container resolves under the same request
\* id for the position's @Inject token, else its declared type, and null
\* where that resolution fails at an @Optional position; when it fails at a
\* position that is not optional the get fails, no object is constructed
\* beyond the dependencies resolved before, and no cache gets an entry for
\* the class.
C23_ParameterResolution ==
    [][\A cls \in ClientClasses, id \in AnyId :
          (Resolve(cls, id) /\ Constructs(ClsTok(cls), id)) =>
             LET r == Returned(ClsTok(cls), id)
                 expected == Arguments(Container, cls, id, 1, <<>>)
             IN  IF expected.failed
                 THEN /\ ~r.ok
                      /\ r.c.created = expected.c.created
                      /\ ~Has(r.c.instances, ClsTok(cls))
                      /\ ~Has(r.c.requestInstances, CacheKey(id, REQUEST, ClsTok(cls)))
                 ELSE /\ r.ok
                      /\ r.val = Mk("obj", expected.c.created + 1, cls, expected.args)]_diVars

\* Instances were constructed with an injected value, with null at an
\* optional position before a resolved one, and a construction was given up
\* after its first dependency had been cached.
C23_Witness ==
    /\ \E k \in DOMAIN instances \cup DOMAIN requestInstances :
          LET v == IF Has(instances, k) THEN instances[k] ELSE requestInstances[k]
          IN  v.cls = "Inj" /\ v.args = <<Value("v1")>>
    /\ \E k \in DOMAIN instances \cup DOMAIN requestInstances :
          LET v == IF Has(instances, k) THEN instances[k] ELSE requestInstances[k]
          IN  v.cls = "Two" /\ Len(v.args) = 2 /\ v.args[1] = Null
                /\ v.args[2].cls = "Svc"
    /\ ~Returned(ClsTok("Req"), NoId).ok
    /\ Has(instances, TokSvc)

\* ---- Re-registration ----

\* an instance is one the descriptor produces: its value, the object its
\* factory hands out, or an object of its class
ProducedFrom(provider, v) ==
    CASE SourceKind(provider) = "value" -> v = Value(provider.useValue)
      [] SourceKind(provider) = "factory" ->
            IF FactoryFresh(provider.useFactory)
            THEN v.kind = "obj" /\ v.cls = provider.useFactory
            ELSE v = SharedProduct(provider.useFactory)
      [] OTHER -> v.kind = "obj" /\ v.cls = provider.useClass

\* C24: every get of a token returns an instance produced from the
\* descriptor registered last for the token, whatever registrations and
\* gets of the token came before.
C24_LastRegistrationWins ==
    [][\A t \in Tokens, id \in AnyId :
          (GetCall(t, id) /\ Returned(t, id).ok) =>
             ProducedFrom(providers[t], Returned(t, id).val)]_diVars

\* ---- clearRequestScope ----

\* The request cache holds an entry that a get of the token under the id
\* created: the pair was resolved and not cleared since, and no other pair
\* that shares its cache key was.
CreatedUnder(t, id) ==
    /\ Has(requestInstances, CacheKey(id, REQUEST, t))
    /\ live[<<t, id>>].val # Absent /\ ~live[<<t, id>>].cleared
    /\ \A p \in Tokens \X RequestIds :
          (p # <<t, id>> /\ CacheKey(p[2], REQUEST, p[1]) = CacheKey(id, REQUEST, t))
             => live[p].val = Absent

\* C25: clearRequestScope(id) removes the request-cache entries created under
\* id and changes nothing else: the singleton cache, the providers and every
\* entry created under another request id stay as they are, ids that id is
\* a prefix of included; with no entry under id nothing changes.
C25_ClearFrame ==
    [][\A id \in RequestIds :
          ClearCall(id) =>
             /\ instances' = instances
             /\ providers' = providers
             /\ \A t \in Tokens : ~Has(requestInstances', CacheKey(id, REQUEST, t))
             /\ \A t \in Tokens, other \in RequestIds \ {id} :
                   CreatedUnder(t, other) =>
                      /\ Has(requestInstances', CacheKey(other, REQUEST, t))
                      /\ requestInstances'[CacheKey(other, REQUEST, t)] =
                            requestInstances[CacheKey(other, REQUEST, t)]
             /\ (\A t \in Tokens : ~CreatedUnder(t, id))
                   => requestInstances' = requestInstances]_diVars

\* ---- Handler arguments and pipes ----

\* handler.apply(instance, args) was called for the request
Invoked(d) == "handler" \in Elements(requests[d].trace)

\* C26: the handler is invoked with, at every position, the value of the
\* binding declared at that position, and undefined where none is declared; no
\* binding's value stands at a position other than its declared one.
C26_ArgsByPosition ==
    \A d \in Requests :
        Invoked(d) =>
            LET args == requests[d].args
            IN  /\ \A p \in DOMAIN meta.params :
                      IF meta.params[p] = Hole
                      THEN p > Len(args) \/ args[p] = Hole
                      ELSE p <= Len(args) /\ args[p] = meta.params[p]
                /\ \A p \in DOMAIN args : args[p] # Hole => args[p].index = p

\* the positions 1..n, in order
Positions(n) == [k \in 1..n |-> k]

\* C27: for every binding of a request whose handler is invoked, each pipe
\* of allPipes = [...globalPipes, ...pipes] had its transform called exactly
\* once, in that order, global pipes first, a pipe given as an instance no
\* less than one given as a class.
C27_EveryPipeOnceInOrder ==
    \A d \in Requests :
        Invoked(d) =>
            \A i \in DOMAIN requests[d].piped :
                requests[d].piped[i] = Positions(Len(AllPipes))

\* ---- Response stage ----

\* C28: a dispatch that is over and whose handler returned has written
\* exactly one response, the handler's: status 204 with an empty body when
\* the result is undefined, else status 200 with the result as its body; no
\* filter was invoked.
C28_ResponseOfResult ==
    \A d \in Requests :
        LET r == requests[d]
        IN  (Finished(d) /\ r.result.returned) =>
               /\ Len(r.res) = 1
               /\ r.res[1].by = "handler"
               /\ r.result.defined =>
                     r.res[1].status = 200 /\ r.sent = Sent(200, r.result.value)
               /\ ~r.result.defined =>
                     r.res[1].status = 204 /\ r.sent = Sent(204, NoBody)
               /\ r.filters = <<>> /\ r.caught = <<>>

\* with filters declared at every level, one request was answered 204 for an
\* undefined result and another 200 with the value its handler returned
C28_Witness ==
    /\ "methodFilters" \in DOMAIN meta /\ "classFilters" \in DOMAIN meta
    /\ options.exception # Undefined
    /\ Finished(1) /\ requests[1].result = UndefinedResult
    /\ requests[1].sent.status = 204
    /\ Finished(2) /\ requests[2].result = JsonResult(<<"ok">>)
    /\ requests[2].sent = Sent(200, JsonResult(<<"ok">>).value)

\* ------------------------------------------------------------------------
\* The decorators storing metadata on a controller class and its route method
\* ------------------------------------------------------------------------
MaxRoutes == 2
MaxKinds == 3

\* Reflect.defineMetadata(key, value, target[, propertyKey]): the value stored
\* under the key is replaced, every other key is left as it was
DefineMetadata(metadata, key, value) ==
    [k \in DOMAIN metadata \cup {key} |-> IF k = key THEN value ELSE metadata[k]]

\* The class and its method carry at most MaxKinds kinds of metadata
Room(key) == Cardinality(DOMAIN meta \cup {key}) <= MaxKinds

\* The lists an annotation is given
Annotated == {<<"X">>, <<"Y">>, <<"X", "Y">>}
AnnotatedPipes ==
    {<<[kind |-> "class", name |-> "X"]>>, <<[kind |-> "class", name |-> "Y"]>>}

\* @UseGuards(...guards) on the class (no propertyKey) or on the method
UseGuards(descriptor, guards) ==
    /\ Room(IF descriptor THEN "methodGuards" ELSE "classGuards")
    /\ meta' = DefineMetadata(meta, IF descriptor THEN "methodGuards"
                                    ELSE "classGuards", guards)
    /\ UNCHANGED <<diVars, bootVars, inputs, transformed, options, modules, limiter,
                   requests, resolves>>

\* @UseMiddleware(...middleware) on the class (no descriptor) or on the method
UseMiddleware(descriptor, middleware) ==
    /\ Room(IF descriptor THEN "methodMiddleware" ELSE "classMiddleware")
    /\ meta' = DefineMetadata(meta, IF descriptor THEN "methodMiddleware"
                                    ELSE "classMiddleware", middleware)
    /\ UNCHANGED <<diVars, bootVars, inputs, transformed, options, modules, limiter,
                   requests, resolves>>

\* @UseFilters(...filters) on the class (no descriptor) or on the method
UseFilters(descriptor, filters) ==
    /\ Room(IF descriptor THEN "methodFilters" ELSE "classFilters")
    /\ meta' = DefineMetadata(meta, IF descriptor THEN "methodFilters"
                                    ELSE "classFilters", filters)
    /\ UNCHANGED <<diVars, bootVars, inputs, transformed, options, modules, limiter,
                   requests, resolves>>

\* @UsePipes(...pipes) on the method
UsePipes(pipes) ==
    /\ Room("pipes")
    /\ meta' = DefineMetadata(meta, "pipes", pipes)
    /\ UNCHANGED <<diVars, bootVars, inputs, transformed, options, modules, limiter,
                   requests, resolves>>

\* @UseInterceptors(...interceptors) on the class (no descriptor) or on the
\* method
UseInterceptors(descriptor, interceptors) ==
    /\ Room(IF descriptor THEN "methodInterceptors" ELSE "classInterceptors")
    /\ meta' = DefineMetadata(meta, IF descriptor THEN "methodInterceptors"
                                    ELSE "classInterceptors", interceptors)
    /\ UNCHANGED <<diVars, bootVars, inputs, transformed, options, modules, limiter,
                   requests, resolves>>

\* @Get(path), @Post(path), ... on a method: the route is pushed onto the
\* list stored on the class, which is created empty on first use
CreateRouteDecorator(method, path, propertyKey) ==
    /\ Len(GetMetadata(meta, "routes")) < MaxRoutes
    /\ Room("routes")
    /\ LET stored == IF "routes" \in DOMAIN meta THEN meta
                     ELSE DefineMetadata(meta, "routes", <<>>)
           pushed == Append(stored["routes"],
                            [method |-> method, path |-> path,
                             handler |-> propertyKey])
       IN  meta' = DefineMetadata(stored, "routes", pushed)
    /\ UNCHANGED <<diVars, bootVars, inputs, transformed, options, modules, limiter,
                   requests, resolves>>

\* The class and its method before any decorator has been applied.
InitDecorators ==
    /\ InitContainer
    /\ meta = <<>>
    /\ options = Config(Undefined)
    /\ inputs = BasicInputs
    /\ transformed = NoTransform
    /\ Defined(BasicModules)
    /\ IdleDispatcher
    /\ limiter = NoLimiters

NextDecorators ==
    \/ \E descriptor \in BOOLEAN, guards \in Annotated :
          UseGuards(descriptor, guards)
    \/ \E descriptor \in BOOLEAN, middleware \in Annotated :
          UseMiddleware(descriptor, middleware)
    \/ \E descriptor \in BOOLEAN, filters \in {<<"X">>, <<"Y">>} :
          UseFilters(descriptor, filters)
    \/ \E pipes \in AnnotatedPipes : UsePipes(pipes)
    \/ \E descriptor \in BOOLEAN, interceptors \in {<<"X">>, <<"Y">>} :
          UseInterceptors(descriptor, interceptors)
    \/ \E method \in {"get", "post"} :
          CreateRouteDecorator(method, <<"/:id">>, "handler")

\* Decorators applied one after another to one class and one of its methods.
SpecDecorators == InitDecorators /\ [][NextDecorators]_vars

\* ------------------------------------------------------------------------
\* Claims about the decorators (checked under SpecDecorators)
\* ------------------------------------------------------------------------
\* every entry of the first list is an entry of the second
Contains(second, first) ==
    \A i \in 1..Len(first) : \E j \in 1..Len(second) : second[j] = first[i]

\* C29: a further annotation of the same kind on the same declaration site
\* never discards what was stored: each list stored before the annotation is
\* still stored after it with all its entries, next to the new ones.
C29_AnnotationsAdditive ==
    [][\A key \in DOMAIN meta :
           key \in DOMAIN meta' /\ Contains(meta'[key], meta[key])]_meta

\* ------------------------------------------------------------------------
\* Claims about interceptors (checked under SpecArgs)
\* ------------------------------------------------------------------------
\* getInterceptors(ControllerClass) followed by
\* getInterceptors(instance, route.handler)
GetInterceptors(metadata) ==
    GetMetadata(metadata, "classInterceptors")
    \o GetMetadata(metadata, "methodInterceptors")

\* C30: on every request to the route, each interceptor attached to the
\* controller or to the route method with @UseInterceptors is invoked around
\* the handler: wherever the handler has run, the interceptor's intercept has
\* run before it in the same dispatch.
C30_InterceptorsAroundHandler ==
    \A d \in Requests :
        Invoked(d) =>
            \A i \in DOMAIN GetInterceptors(meta) :
                \E j, k \in DOMAIN requests[d].trace :
                    /\ j < k
                    /\ requests[d].trace[j] = GetInterceptors(meta)[i]
                    /\ requests[d].trace[k] = "handler"

\* ------------------------------------------------------------------------
\* Claims about requests in flight (checked under Spec)
\* ------------------------------------------------------------------------
\* the terminal handler of the request has drawn its id and has not finished
InFlight(d) == requests[d].pc \in {"bind", "invoke"}

\* C31: no two requests that are in flight at the same time hold the same
\* request id.
C31_DistinctIdsInFlight ==
    \A d1, d2 \in Requests :
        (d1 # d2 /\ InFlight(d1) /\ InFlight(d2)) =>
            requests[d1].id # requests[d2].id

\* the request got its answer: its finally block has run and, unless the
\* filter it reached raised, a response was written
Completed(d) ==
    /\ Finished(d)
    /\ requests[d].clears = <<requests[d].id>>
    /\ ~requests[d].rejected => Len(requests[d].res) = 1

\* C32: a request whose handler is still pending has received no response,
\* and, while the handler of request 1 may stay pending for ever, every other
\* request that has entered its terminal handler is dispatched to completion.
C32_HungHandlerBlocksNobody ==
    /\ [](\A d \in Requests :
             requests[d].pc = "invoke" =>
                requests[d].res = <<>> /\ requests[d].sent = NothingSent)
    /\ \A d \in Requests \ {1} : (requests[d].pc = "bind") ~> Completed(d)

C32_Witness ==
    /\ requests[1].pc = "invoke" /\ requests[1].res = <<>>
    /\ Completed(2) /\ ~requests[2].rejected

\* Where a request stands in its pipeline: the position in the stack of
\* middleware and guards, then parameter binding, the handler, and the
\* response with the cleanup
StageIndex(r) ==
    CASE r.pc = "new"               -> 0
      [] r.pc \in {"chain", "halted"} -> r.idx
      [] r.pc = "bind"              -> Len(app) + 1
      [] r.pc = "invoke"            -> Len(app) + 2
      [] r.pc = "done"              -> Len(app) + 3

\* no element occurs twice
NoRepeat(s) == \A i, j \in DOMAIN s : s[i] = s[j] => i = j

\* C33: per request the stage index never decreases, a step that moves the
\* request on moves it forward (a guard that rejects ends it where it is), and
\* no stage of the stack is run twice, however the steps of the requests
\* interleave.
C33_StagesOnlyForward ==
    [][\A d \in Requests :
          \/ requests'[d] = requests[d]
          \/ /\ StageIndex(requests'[d]) >= StageIndex(requests[d])
             /\ (requests'[d].pc # requests[d].pc /\ requests'[d].pc # "halted") =>
                   StageIndex(requests'[d]) > StageIndex(requests[d])
             /\ requests'[d].trace = requests[d].trace \/ NoRepeat(requests'[d].trace)
             /\ Len(requests'[d].clears) <= 1]_vars

C33_Witness ==
    /\ requests[1].pc = "bind" /\ requests[1].trace = <<"A", "B", "C", "G1", "G2">>
    /\ Finished(2) /\ requests[2].trace = ChainOrder
    /\ StageIndex(requests[2]) = Len(app) + 3

\* ------------------------------------------------------------------------
\* Claims about values, factories and dependency graphs (checked under
\* SpecGraph)
\* ------------------------------------------------------------------------
\* get(token, requestId) finds the token's instance in a cache
Cached(c, token, requestId) ==
    LET scope == ScopeOf(c.providers[token])
        cacheKey == CacheKey(requestId, scope, token)
    IN  \/ scope = SINGLETON /\ Has(c.instances, cacheKey)
        \/ scope = REQUEST /\ requestId # NoId /\ Has(c.requestInstances, cacheKey)

\* the last call followed was get(token, ...)
Called(token) == called.made /\ called.token = token

\* a descriptor with useValue yields that value and constructs nothing
ValueReturned ==
    /\ called.out.ok
    /\ called.out.val = Value(called.before.providers[called.token].useValue)
    /\ called.out.c.created = called.before.created

\* a descriptor with useFactory, not cached: the tokens of inject are
\* resolved in order under the same request id, the factory is called once
\* with their values, and what it returns is returned as it is
FactoryCalledOnce ==
    LET p  == called.before.providers[called.token]
        d1 == Get(called.before, p.inject[1], called.requestId, MaxDepth - 1)
        d2 == Get(d1.c, p.inject[2], called.requestId, MaxDepth - 1)
    IN  (~Cached(called.before, called.token, called.requestId) /\ d1.ok /\ d2.ok) =>
           /\ called.out.ok
           /\ called.out.val =
                 IF FactoryFresh(p.useFactory)
                 THEN Mk("obj", d2.c.created + 1, p.useFactory, <<d1.val, d2.val>>)
                 ELSE SharedProduct(p.useFactory)
           /\ called.out.c.created =
                 d2.c.created + (IF FactoryFresh(p.useFactory) THEN 1 ELSE 0)

\* C34: get on a descriptor with useValue returns exactly that value and
\* constructs no object, for every value, null and undefined included; get on
\* a descriptor with useFactory resolves the inject list in order under the
\* same request id, calls the factory once and returns its result.
C34_ValuesAndFactories ==
    /\ Called(TokC) => ValueReturned
    /\ Called(TokBC) => FactoryCalledOnce

\* the classes whose constructor dependencies lead back to themselves
CyclicClasses == {"CycA", "CycB", "OptA", "OptB"}

\* the call followed last threw and left both caches as they were
ThrewAndCachedNothing ==
    /\ ~called.out.ok
    /\ called.out.c.instances = called.before.instances
    /\ called.out.c.requestInstances = called.before.requestInstances

\* C35: get on a token whose constructor dependencies contain a cycle never
\* returns an instance and caches nothing.
C35_CycleNeverResolves ==
    \A cls \in CyclicClasses : Called(ClsTok(cls)) => ThrewAndCachedNothing

\* ------------------------------------------------------------------------
\* Limiters of RateLimitMiddleware at work
\* ------------------------------------------------------------------------

\* the options given to create(): each of windowMs and max is given or left out
LimiterOptions ==
    {w @@ m : w \in {<<>>} \cup {[k \in {"windowMs"} |-> v] : v \in {1, 2}},
              m \in {<<>>} \cup {[k \in {"max"} |-> v] : v \in {0, 1, 2}}}

\* RateLimitMiddleware.create(options)
Create(opts) ==
    /\ Len(limiter.created) < MaxLimiters
    /\ limiter' = [limiter EXCEPT
                      !.created = Append(@, Destructure(opts)),
                      !.window = Append(@, <<>>)]
    /\ UNCHANGED <<diVars, meta, inputs, transformed, options, modules, bootVars,
                   requests, resolves>>

\* A request of the client key reaches the limiter l: the closure create()
\* returned runs at Date.now() = limiter.now.
Handle(l, key) ==
    /\ l \in 1..Len(limiter.created)
    /\ limiter.handled < MaxHandled
    /\ LET settings == limiter.created[l]
           r == Limit(settings, limiter.requests, key, limiter.now)
       IN  limiter' = [limiter EXCEPT
                          !.requests = r.requests,
                          !.handled = @ + 1,
                          !.window[l] =
                              IF r.next /\ key # NoKey
                              THEN Counted(settings, @, key, limiter.now)
                              ELSE @,
                          !.last = IF r.next THEN "next" ELSE "429"]
    /\ UNCHANGED <<diVars, meta, inputs, transformed, options, modules, bootVars,
                   requests, resolves>>

\* Date.now() moves on
Tick ==
    /\ limiter.now < MaxTime
    /\ limiter' = [limiter EXCEPT !.now = @ + 1]
    /\ UNCHANGED <<diVars, meta, inputs, transformed, options, modules, bootVars,
                   requests, resolves>>

NextLimit ==
    \/ \E opts \in LimiterOptions : Create(opts)
    \/ \E l \in 1..MaxLimiters, key \in ClientKeys \cup {NoKey} : Handle(l, key)
    \/ Tick

\* Limiters are created and used by requests of two clients as time passes.
SpecLimit == InitDecorators /\ [][NextLimit]_vars

\* C36: in each window of a limiter for a client key the limiter passes on at
\* most max requests of that key, for every max >= 0 and with several limiters
\* at work.
C36_AtMostMaxPerWindow ==
    \A l \in 1..Len(limiter.created) : \A key \in DOMAIN limiter.window[l] :
        limiter.window[l][key].passed <= limiter.created[l].max

\* the slots of both caches a get(token, requestId) could have filled
KeysOf(token, requestId) == {token, CacheKey(requestId, REQUEST, token)}

\* the call followed last threw and neither cache holds anything for its token
ThrewAndStoredNothing ==
    \A k \in KeysOf(called.token, called.requestId) :
        /\ ~Has(called.out.c.instances, k)
        /\ ~Has(called.out.c.requestInstances, k)

\* the call returned an object constructed during the call from dependencies
\* that are all there
BuiltAfresh(call) ==
    /\ call.out.val.kind = "obj"
    /\ call.out.val.n > call.before.created
    /\ \A i \in 1..Len(call.out.val.args) : call.out.val.args[i].kind = "obj"

\* C37: a get that throws stores nothing for the requested token in either
\* cache, and the next get of the token that succeeds constructs the instance
\* during that call, from dependencies that were all resolved.
C37_FailedGetStoresNothing ==
    /\ []((called.made /\ ~called.out.ok) => ThrewAndStoredNothing)
    /\ [][(called.made /\ ~called.out.ok /\ called' # called
             /\ called'.token = called.token /\ called'.out.ok)
          => BuiltAfresh(called')]_vars

\* get(Req, 'a') threw for the missing Gone after Svc, its first dependency,
\* had been built and stored for the request
C37_Witness ==
    /\ Called(ClsTok("Req")) /\ called.requestId = IdA /\ ~called.out.ok
    /\ called.out.val.cls = "Provider not found"
    /\ Has(called.out.c.requestInstances, CacheKey(IdA, REQUEST, TokSvc))
    /\ ~Has(called.before.requestInstances, CacheKey(IdA, REQUEST, TokSvc))

\* the call followed last resolved a provider of request lifetime without a
\* request id and returned
ResolvedWithoutId ==
    /\ called.made /\ called.requestId = NoId /\ called.out.ok
    /\ ScopeOf(called.before.providers[called.token]) = REQUEST

\* what get(token, id) returns once the call followed last is over
Later(id) == Get(called.out.c, called.token, id, MaxDepth)

Answers(d, status) ==
    Cardinality({i \in DOMAIN requests[d].res :
                    requests[d].res[i] = Write("handler", status)})

\* the 204 answers, the JSON answers and the filter invocations of a request
Outcomes(d) == Answers(d, 204) + Answers(d, 200) + Len(requests[d].filters)

\* C39: a request whose terminal handler has terminated had exactly one of: a
\* 204 empty response, a JSON response, the invocation of one exception filter.
C39_ExactlyOneOutcome ==
    \A d \in Requests :
        /\ requests[d].pc = "done" => Outcomes(d) = 1
        /\ requests[d].pc \in {"bind", "invoke"} => Outcomes(d) = 0

\* one request ended in a filter after its handler raised while another was
\* answered by the handler
C39_Witness ==
    \E d, e \in Requests :
        /\ requests[d].pc = "done" /\ requests[e].pc = "done"
        /\ \E i \in DOMAIN requests[d].trace : requests[d].trace[i] = "handler"
        /\ Len(requests[d].filters) = 1 /\ Answers(d, 204) + Answers(d, 200) = 0
        /\ Len(requests[e].filters) = 0 /\ Answers(e, 204) + Answers(e, 200) = 1

\* the binding of the request failed in a pipe and the filter has been invoked
PipeRaisedAndFiltered(d) ==
    /\ requests[d].pc = "done"
    /\ \E i \in DOMAIN requests[d].closures : requests[d].closures[i] = -1
    /\ Len(requests[d].filters) = 1

====
